---- MODULE Spec2Model ----
(***************************************************************************)
(* Model of the TinyDB TypeScript client (src/src/index.ts): the request   *)
(* executor TinyDB.requestInternal, the in-memory offline queue and        *)
(* TinyDB.flushOfflineQueue, with the asynchronous calls of one client     *)
(* interleaving at their await points; the requests as the transport sees  *)
(* them; ensureCollection and the collection facade with the descriptor it *)
(* caches; the CollectionBuilder and the bodies of the requests it leads   *)
(* to; and the payload codec parseDocument and parseCollection.            *)
(***************************************************************************)
EXTENDS Integers, Sequences, FiniteSets, TLC

(***************************************************************************)
(* Bounds of the model.                                                    *)
(***************************************************************************)
\* calls of one client that may be in flight at the same time
NProcs == 2
\* calls (document requests and flushes) issued in one behaviour
MaxCalls == 4

\* facade calls (ensureCollection, batch delete and purge, bulk create) that
\* one caller issues one after the other
MaxFacadeCalls == 2
\* collections that other clients of the same tenant create or remove
MaxEnvOps == 1
\* identifiers in the list handed to delete, purge or create
MaxBatch == 3

Procs == 1..NProcs

(***************************************************************************)
(* JavaScript values.                                                      *)
(***************************************************************************)
Undefined == "<undefined>"

\* JS truthiness of a string-or-undefined value (the operands of || below)
Truthy(x) == x \notin {Undefined, ""}

\* a || b
Or(a, b) == IF Truthy(a) THEN a ELSE b

(***************************************************************************)
(* The facade methods of CollectionClient and the RequestOptions each one  *)
(* hands to requestInternal: method, path, parser, allowOfflineQueue       *)
(* (absent on reads and on query, hence falsy).                            *)
(***************************************************************************)
FacadeCalls == {"get", "list", "create", "createBulk", "update", "patch",
                "delete", "purge", "query"}

\* the requests of TinyDB.collections and TinyDB.ensureCollection (create,
\* then on a conflict update or listing); none sets allowOfflineQueue to true
CollectionCalls == {"collections", "createCollection", "updateCollection"}

\* the calls the behaviours issue: one for each combination of options the
\* catch block of requestInternal tells apart (GET or not, queuing allowed
\* or not) and each parser
Apis == {"get", "create", "delete", "query"}

Method(a) ==
  CASE a \in {"get", "list"} -> "GET"
    [] a \in {"create", "createBulk", "query"} -> "POST"
    [] a = "update" -> "PUT"
    [] a = "patch" -> "PATCH"
    [] a \in {"delete", "purge"} -> "DELETE"
    [] a = "collections" -> "GET"
    [] a = "createCollection" -> "POST"
    [] a = "updateCollection" -> "PUT"

Path(a) ==
  CASE a \in {"list", "create"} -> "/documents"
    [] a \in {"get", "update", "patch", "delete"} -> "/documents/{id}"
    [] a = "createBulk" -> "/documents/bulk"
    [] a = "purge" -> "/documents/{id}/purge?confirm=true"
    [] a = "query" -> "/query"
    [] a \in {"collections", "createCollection"} -> "/api/collections"
    [] a = "updateCollection" -> "/api/collections/{name}"

\* "void" is the parser `async () => undefined` of delete and purge
Parser(a) == IF a \in {"delete", "purge"} THEN "void" ELSE "json"

AllowOfflineQueue(a) ==
  a \in {"create", "createBulk", "update", "patch", "delete", "purge"}

(***************************************************************************)
(* Errors.  Every error is an Error object: name is the class, the other   *)
(* fields are those its class carries (status and code for TinyDBError,    *)
(* operation for OfflineError).                                            *)
(***************************************************************************)
\* the options a client is constructed with: apiKey is required, appId is
\* optional
ApiKey == "key-1"

AppIds == {Undefined, "", "app-1"}

NoHeaders == [k \in {} |-> ""]

\* { ...h, ...g }
Spread(h, g) ==
  [k \in DOMAIN h \cup DOMAIN g |-> IF k \in DOMAIN g THEN g[k] ELSE h[k]]

\* mutant: the constructor never adds the app-scope header
BaseHeadersWithoutAppId(app) ==
  [k \in {"Accept", "X-API-Key"} |->
     IF k = "Accept" THEN "application/json" ELSE ApiKey]

\* this.baseHeaders as the constructor leaves it
BaseHeaders(app) ==
  Spread([k \in {"Accept", "X-API-Key"} |->
            IF k = "Accept" THEN "application/json" ELSE ApiKey],
         IF Truthy(app) THEN [k \in {"X-App-ID"} |-> app] ELSE NoHeaders)

\* options.headers: no method of the client or of a collection sets it
OptionHeaders(a) == NoHeaders

\* the text JSON.stringify makes of options.body, named after the call;
\* Undefined when the call has no body
Body(a) ==
  IF a \in {"create", "createBulk", "update", "patch", "query",
            "createCollection", "updateCollection"}
    THEN a
    ELSE Undefined

\* const init = { method, headers, body }
RequestInit(app, a) ==
  LET headers == Spread(BaseHeaders(app), OptionHeaders(a))
  IN  [method |-> Method(a),
       headers |-> IF Body(a) # Undefined /\ "Content-Type" \notin DOMAIN headers
                     THEN Spread(headers, [k \in {"Content-Type"} |->
                                             "application/json"])
                     ELSE headers,
       body |-> Body(a)]

NoInit == [method |-> "", headers |-> NoHeaders, body |-> Undefined]

NoOp == [id |-> 0, url |-> "", method |-> "", parser |-> "", init |-> NoInit]

NoErr == [name |-> "", message |-> "", status |-> 0, code |-> Undefined,
          operation |-> NoOp]

PlainError(n, m) == [NoErr EXCEPT !.name = n, !.message = m]

TinyDBError(m, s, c) ==
  [NoErr EXCEPT !.name = "TinyDBError", !.message = m, !.status = s, !.code = c]

OfflineError(m, op) ==
  [NoErr EXCEPT !.name = "OfflineError", !.message = m, !.operation = op]

\* what the transport (fetch) may reject with when no response arrives
FetchErrors ==
  { PlainError("TypeError", "Failed to fetch"),
    PlainError("Error", "The operation was aborted") }

(***************************************************************************)
(* Responses.  body.kind is "empty" (no text), "invalid" (text that is not *)
(* JSON) or "json" (a JSON object with the listed fields, Undefined when   *)
(* absent).                                                                *)
(***************************************************************************)
NoBody == [kind |-> "empty", message |-> Undefined,
           error_description |-> Undefined, error |-> Undefined,
           code |-> Undefined]

Response(s, t, b) == [status |-> s, statusText |-> t, body |-> b]

NoResp == Response(0, "", NoBody)

\* what the transport may resolve with
Responses ==
  { Response(200, "OK", [NoBody EXCEPT !.kind = "json"]),
    Response(200, "OK", [NoBody EXCEPT !.kind = "invalid"]),
    Response(409, "Conflict",
             [NoBody EXCEPT !.kind = "json", !.error = "conflict"]),
    Response(511, "Network Authentication Required", NoBody) }

\* Response.ok
Ok(r) == r.status >= 200 /\ r.status <= 299

\* jsonParser: 204 and an empty text give undefined, other text is parsed
JsonParserThrows(r) == r.status # 204 /\ r.body.kind = "invalid"

ParserThrows(parser, r) == parser = "json" /\ JsonParserThrows(r)

ParseFailure == PlainError("Error", "Failed to parse JSON response")

\* parseError: the TinyDBError built from a non-success response
parseError(r) ==
  LET payload == IF r.body.kind = "json" THEN r.body ELSE NoBody
      message == Or(payload.message,
                    Or(payload.error_description,
                       Or(payload.error,
                          Or(r.statusText, "Request failed"))))
      code == Or(payload.code, payload.error)
  IN  TinyDBError(message, r.status, code)

\* /network|fetch failed|Failed to fetch/i over the messages of the model
MatchesNetworkPattern(m) ==
  m \in {"Failed to fetch", "Network Authentication Required"}

isNetworkError(err) ==
  \/ err.name = "TypeError"
  \/ Truthy(err.message) /\ MatchesNetworkPattern(err.message)

(***************************************************************************)
(* State.                                                                  *)
(***************************************************************************)
VARIABLES
  offlineMode,   \* TinyDB.offlineMode
  offlineQueue,  \* TinyDB.offlineQueue
  enqCount,      \* operations pushed so far: the identity of the next one
  replayLog,     \* ids of the operations sent by flushOfflineQueue, in order
  ncalls,        \* calls started
  last,          \* the call that settled most recently, and how
  pc,            \* await point each call in flight is suspended on
  call,          \* "request" or "flush"
  api,           \* facade method of a request
  cur,           \* flush: const operation = this.offlineQueue[0]
  resp,          \* response the call received
  nfetch,        \* transport calls the call has made
  snap,          \* flush: the queue when the replay in flight was sent
  server,        \* the collections of the tenant on the server, as listed
  nextId,        \* the id the server gives the next collection
  envOps,        \* collections created or removed by other clients so far
  fcalls,        \* facade calls started
  fc,            \* the facade call in flight
  flast,         \* the facade call that settled most recently, and how
  metadata,      \* CollectionClient.metadata of the collection facade held
  wire,          \* a payload as received
  decoded,       \* what parseDocument or parseCollection made of it
  appId,         \* TinyDB.appId
  attempts,      \* the request each queued operation was first sent as
  atStart        \* flush: the length of the queue when the flush was called

\* the state of the calls that run against requestInternal concurrently
slotVars == <<replayLog, ncalls, last, pc, call, api, cur, resp, nfetch, snap>>

\* the state of the facade calls issued one after the other, and the server
facadeVars == <<server, nextId, envOps, fcalls, fc, flast, metadata>>

\* the payload codec at work
codecVars == <<wire, decoded>>

\* the client's app scope, the transport's record of first attempts and
\* the caller's record of the queue each flush was called on
wireVars == <<appId, attempts, atStart>>

vars == <<offlineMode, offlineQueue, enqCount, slotVars, facadeVars,
          codecVars, wireVars>>

\* a settled call: state is "resolved" or "rejected", error what it rejected
\* with, caught the error that entered its catch block, op the operation a
\* flush replayed last
Settled(c, st, err, ct, op) ==
  [call |-> c, state |-> st, error |-> err, caught |-> ct, op |-> op]

NoCall == Settled("none", "none", NoErr, NoErr, NoOp)

\* a facade call in flight: pc is the request it awaits, list the ids or
\* documents it was given, k the position in the list, reqs the transport
\* calls it has made (the last one pending while it is awaited), held the
\* descriptor the caller holds from the ensureCollection of the same name
\* and no schema it awaited just before
\* a PrimaryKeyConfig: supplied or not, and each field Undefined when the
\* caller did not set it
PrimaryKey(field, type, auto) ==
  [supplied |-> TRUE, field |-> field, type |-> type, auto |-> auto]

NoPrimaryKey ==
  [supplied |-> FALSE, field |-> Undefined, type |-> Undefined,
   auto |-> Undefined]

NoFacadeCall ==
  [kind |-> "none", pc |-> "idle", name |-> "", schema |-> FALSE,
   list |-> <<>>, k |-> 0, reqs |-> <<>>, held |-> <<>>,
   onResolved |-> FALSE, via |-> "", schemaDef |-> FALSE,
   pkConfig |-> NoPrimaryKey, primaryKey |-> NoPrimaryKey]

\* a settled facade call: value is what it returned (the descriptor of
\* ensureCollection or the records of a bulk create, in a list)
FSettled(c, st, err, val, rq) ==
  [kind |-> c.kind, name |-> c.name, schema |-> c.schema, list |-> c.list,
   state |-> st, error |-> err, value |-> val, reqs |-> rq, held |-> c.held,
   via |-> c.via, primaryKey |-> c.primaryKey]

\* no settled facade call to look at: none yet, or the next one is in flight
NoResult == FSettled(NoFacadeCall, "none", NoErr, <<>>, <<>>)

\* no payload, no record
Nothing == [kind |-> "nothing"]

\* the client as constructed, without an app id (SpecWire constructs it with
\* and without one); no payload has arrived and no facade is held
Init ==
  /\ wire = Nothing
  /\ decoded = Nothing
  /\ appId = Undefined
  /\ attempts = <<>>
  /\ atStart = [p \in Procs |-> 0]
  /\ offlineMode \in BOOLEAN
  /\ offlineQueue = <<>>
  /\ enqCount = 0
  /\ replayLog = <<>>
  /\ ncalls = 0
  /\ last = NoCall
  /\ pc = [p \in Procs |-> "idle"]
  /\ call = [p \in Procs |-> "none"]
  /\ api = [p \in Procs |-> "none"]
  /\ cur = [p \in Procs |-> NoOp]
  /\ resp = [p \in Procs |-> NoResp]
  /\ nfetch = [p \in Procs |-> 0]
  /\ snap = [p \in Procs |-> <<>>]
  /\ server = <<>>
  /\ nextId = 1
  /\ envOps = 0
  /\ fcalls = 0
  /\ fc = NoFacadeCall
  /\ flast = NoResult
  /\ metadata = <<>>

Free(p) == pc[p] = "idle"

\* a new call takes the lowest free slot (slots are interchangeable)
LowestFree(p) == Free(p) /\ \A q \in Procs : q < p => ~Free(q)

\* the call of slot p has settled: the slot is free again
Release(p) ==
  /\ pc' = [pc EXCEPT ![p] = "idle"]
  /\ call' = [call EXCEPT ![p] = "none"]
  /\ api' = [api EXCEPT ![p] = "none"]
  /\ cur' = [cur EXCEPT ![p] = NoOp]
  /\ resp' = [resp EXCEPT ![p] = NoResp]
  /\ nfetch' = [nfetch EXCEPT ![p] = 0]
  /\ snap' = [snap EXCEPT ![p] = <<>>]

(***************************************************************************)
(* requestInternal.                                                        *)
(***************************************************************************)
\* mutant: the catch block does not test options.allowOfflineQueue
ShouldQueueIgnoringAllow(mode, a, err) ==
  /\ mode
  /\ Method(a) # "GET"
  /\ isNetworkError(err)

\* mutant: the catch block does not test this.offlineMode
ShouldQueueIgnoringMode(mode, a, err) ==
  /\ AllowOfflineQueue(a)
  /\ Method(a) # "GET"
  /\ isNetworkError(err)

\* the condition of the catch block
ShouldQueue(mode, a, err) ==
  /\ mode
  /\ AllowOfflineQueue(a)
  /\ Method(a) # "GET"
  /\ isNetworkError(err)

\* const queued = { url, init: { ...init }, parser }; id is its identity
QueuedOperation(n, a) ==
  [id |-> n, url |-> Path(a), method |-> Method(a), parser |-> Parser(a),
   init |-> RequestInit(appId, a)]

\* mutant: the flush replays the most recent operation
LastOp(q) == q[Len(q)]

\* const operation = this.offlineQueue[0]
HeadOp(q) == q[1]

\* mutant: unshift instead of push
PushFront(q, op) == <<op>> \o q

\* this.offlineQueue.push(queued)
Push(q, op) == Append(q, op)

\* the request is built and handed to the transport: await this.fetchImpl
StartRequest(p, a) ==
  /\ LowestFree(p)
  /\ ncalls < MaxCalls
  /\ ncalls' = ncalls + 1
  /\ pc' = [pc EXCEPT ![p] = "fetch"]
  /\ call' = [call EXCEPT ![p] = "request"]
  /\ api' = [api EXCEPT ![p] = a]
  /\ nfetch' = [nfetch EXCEPT ![p] = 1]
  /\ UNCHANGED <<offlineMode, offlineQueue, enqCount, replayLog, last, cur,
                 resp, snap>>

\* the catch block: queue the request and throw OfflineError, or rethrow
RequestCatch(p, err) ==
  /\ IF ShouldQueue(offlineMode, api[p], err)
       THEN LET queued == QueuedOperation(enqCount + 1, api[p])
            IN  /\ offlineQueue' = Push(offlineQueue, queued)
                /\ enqCount' = enqCount + 1
                /\ last' = Settled("request", "rejected",
                             OfflineError("Request queued while offline",
                                          queued),
                             err, NoOp)
       ELSE /\ last' = Settled("request", "rejected", err, err, NoOp)
            /\ UNCHANGED <<offlineQueue, enqCount>>
  /\ Release(p)
  /\ UNCHANGED <<offlineMode, replayLog, ncalls>>

\* the transport rejects: no response
RequestFetchRejects(p, err) ==
  /\ call[p] = "request"
  /\ pc[p] = "fetch"
  /\ RequestCatch(p, err)

\* the transport resolves with a response
FetchResolves(p, r) ==
  /\ pc[p] = "fetch"
  /\ resp' = [resp EXCEPT ![p] = r]
  /\ pc' = [pc EXCEPT ![p] = IF Ok(r) THEN "parser" ELSE "parseError"]
  /\ UNCHANGED <<offlineMode, offlineQueue, enqCount, replayLog, ncalls, last,
                 call, api, cur, nfetch, snap>>

\* throw await parseError(response.clone())
RequestParseErrorDone(p) ==
  /\ call[p] = "request"
  /\ pc[p] = "parseError"
  /\ RequestCatch(p, parseError(resp[p]))

\* mutant: a request that succeeds re-sends the head of the queue inline
RequestParserDoneAutoSync(p) ==
  /\ call[p] = "request"
  /\ pc[p] = "parser"
  /\ IF ParserThrows(Parser(api[p]), resp[p])
       THEN RequestCatch(p, ParseFailure)
       ELSE /\ last' = Settled("request", "resolved", NoErr, NoErr, NoOp)
            /\ Release(p)
            /\ replayLog' = IF Len(offlineQueue) > 0
                              THEN Append(replayLog, HeadOp(offlineQueue).id)
                              ELSE replayLog
            /\ UNCHANGED <<offlineMode, offlineQueue, enqCount, ncalls>>

\* return await parser(response.clone())
RequestParserDone(p) ==
  /\ call[p] = "request"
  /\ pc[p] = "parser"
  /\ IF ParserThrows(Parser(api[p]), resp[p])
       THEN RequestCatch(p, ParseFailure)
       ELSE /\ last' = Settled("request", "resolved", NoErr, NoErr, NoOp)
            /\ Release(p)
            /\ UNCHANGED <<offlineMode, offlineQueue, enqCount, replayLog,
                           ncalls>>

(***************************************************************************)
(* flushOfflineQueue.                                                      *)
(***************************************************************************)
\* mutant: the loop stops one operation early
FlushLoopCondOffByOne(q) == Len(q) > 1

\* while (this.offlineQueue.length > 0)
FlushLoopCond(q) == Len(q) > 0

\* mutant: pop instead of shift
Pop(q) == IF Len(q) = 0 THEN q ELSE SubSeq(q, 1, Len(q) - 1)

\* mutant: the replayed operation is not removed
ShiftKeepsHead(q) == q

\* this.offlineQueue.shift(): a no-op on an empty array
Shift(q) == IF Len(q) = 0 THEN q ELSE Tail(q)

\* mutant: the catch block drops the operation whose replay failed
QueueDroppingFailed(q) == Shift(q)

\* catch (error) { throw error }: the operation is kept
QueueAfterReplayFailure(q) == q

\* the loop test and, when it passes, the body up to await this.fetchImpl;
\* q is the queue and n the number of transport calls the flush has made
FlushIterate(p, q, n) ==
  IF FlushLoopCond(q)
    THEN /\ pc' = [pc EXCEPT ![p] = "fetch"]
         /\ call' = [call EXCEPT ![p] = "flush"]
         /\ cur' = [cur EXCEPT ![p] = HeadOp(q)]
         /\ resp' = [resp EXCEPT ![p] = NoResp]
         /\ nfetch' = [nfetch EXCEPT ![p] = n + 1]
         /\ snap' = [snap EXCEPT ![p] = q]
         /\ replayLog' = Append(replayLog, HeadOp(q).id)
         /\ UNCHANGED <<api, last>>
    ELSE /\ last' = Settled("flush", "resolved", NoErr, NoErr, cur[p])
         /\ Release(p)
         /\ UNCHANGED replayLog

\* mutant: do { ... } while, so the body runs on an empty queue and throws
\* on the undefined operation
StartFlushDoWhile(p) ==
  /\ LowestFree(p)
  /\ ncalls < MaxCalls
  /\ ncalls' = ncalls + 1
  /\ IF Len(offlineQueue) = 0
       THEN /\ last' = Settled("flush", "rejected",
                               PlainError("TypeError", "operation is undefined"),
                               PlainError("TypeError", "operation is undefined"),
                               NoOp)
            /\ UNCHANGED <<pc, call, api, cur, resp, nfetch, snap, replayLog>>
       ELSE FlushIterate(p, offlineQueue, 0)
  /\ UNCHANGED <<offlineMode, offlineQueue, enqCount>>

\* the loop is entered: the first test and, when it passes, the first replay
StartFlush(p) ==
  /\ LowestFree(p)
  /\ ncalls < MaxCalls
  /\ ncalls' = ncalls + 1
  /\ FlushIterate(p, offlineQueue, 0)
  /\ UNCHANGED <<offlineMode, offlineQueue, enqCount>>

\* the replay failed: the catch block rethrows and the flush rejects
FlushCatch(p, err) ==
  /\ last' = Settled("flush", "rejected", err, err, cur[p])
  /\ offlineQueue' = QueueAfterReplayFailure(offlineQueue)
  /\ Release(p)
  /\ UNCHANGED <<offlineMode, enqCount, replayLog, ncalls>>

FlushFetchRejects(p, err) ==
  /\ call[p] = "flush"
  /\ pc[p] = "fetch"
  /\ FlushCatch(p, err)

\* throw await parseError(response)
FlushParseErrorDone(p) ==
  /\ call[p] = "flush"
  /\ pc[p] = "parseError"
  /\ FlushCatch(p, parseError(resp[p]))

\* mutant: the shift sits in a finally block, so it also runs when the
\* parser throws
FlushParserDoneFinally(p) ==
  /\ call[p] = "flush"
  /\ pc[p] = "parser"
  /\ IF ParserThrows(cur[p].parser, resp[p])
       THEN /\ last' = Settled("flush", "rejected", ParseFailure,
                               ParseFailure, cur[p])
            /\ offlineQueue' = Shift(offlineQueue)
            /\ Release(p)
            /\ UNCHANGED <<offlineMode, enqCount, replayLog, ncalls>>
       ELSE /\ offlineQueue' = Shift(offlineQueue)
            /\ FlushIterate(p, Shift(offlineQueue), nfetch[p])
            /\ UNCHANGED <<offlineMode, enqCount, ncalls>>

\* await operation.parser(response.clone()); this.offlineQueue.shift();
\* and the next iteration of the loop
FlushParserDone(p) ==
  /\ call[p] = "flush"
  /\ pc[p] = "parser"
  /\ IF ParserThrows(cur[p].parser, resp[p])
       THEN FlushCatch(p, ParseFailure)
       ELSE /\ offlineQueue' = Shift(offlineQueue)
            /\ FlushIterate(p, Shift(offlineQueue), nfetch[p])
            /\ UNCHANGED <<offlineMode, enqCount, ncalls>>

(***************************************************************************)
(* Specifications.  Spec lets any calls overlap, two flushes included;     *)
(* SpecOneFlush is the use the documentation prescribes: a flush starts    *)
(* only when no other flush is running.                                    *)
(***************************************************************************)
FlushRunning(p) == call[p] = "flush" /\ ~Free(p)

NoFlushRunning == \A p \in Procs : ~FlushRunning(p)

StartFlushAlone(p) == NoFlushRunning /\ StartFlush(p)

\* a request resumes after the await it is suspended on (a flush shares the
\* step in which the transport resolves)
RequestContinues(p) ==
  \/ \E e \in FetchErrors : RequestFetchRejects(p, e)
  \/ \E r \in Responses : FetchResolves(p, r)
  \/ RequestParseErrorDone(p)
  \/ RequestParserDone(p)

\* a flush resumes after the await it is suspended on
FlushContinues(p) ==
  \/ \E e \in FetchErrors : FlushFetchRejects(p, e)
  \/ FlushParseErrorDone(p)
  \/ FlushParserDone(p)

RequestStep(p) ==
  \/ \E a \in Apis : StartRequest(p, a)
  \/ RequestContinues(p)

Step(p) == RequestStep(p) \/ FlushContinues(p)

Next ==
  /\ \E p \in Procs : Step(p) \/ StartFlush(p)
  /\ UNCHANGED <<facadeVars, codecVars, wireVars>>

NextOneFlush ==
  /\ \E p \in Procs : Step(p) \/ StartFlushAlone(p)
  /\ UNCHANGED <<facadeVars, codecVars, wireVars>>

\* the caller issues document requests and never calls flushOfflineQueue
NextNoFlush ==
  /\ \E p \in Procs : RequestStep(p)
  /\ UNCHANGED <<facadeVars, codecVars, wireVars>>

Spec == Init /\ [][Next]_vars

SpecOneFlush == Init /\ [][NextOneFlush]_vars

\* every await of a call in flight is eventually resumed: the transport
\* settles each fetch and the event loop runs each continuation
SpecNoFlush ==
  /\ Init
  /\ [][NextNoFlush]_vars
  /\ \A p \in Procs :
       WF_vars(/\ RequestContinues(p)
               /\ UNCHANGED <<facadeVars, codecVars, wireVars>>)

(***************************************************************************)
(* The transport's view.  SpecWire runs the calls of Spec for a client     *)
(* constructed with or without an app id, and records for each operation   *)
(* that is queued the request its call had handed to the transport.  The   *)
(* calls are a read, a write with a body and a write without one; the      *)
(* transport rejects, or resolves with a success or an error status.       *)
(***************************************************************************)
WireApis == {"get", "create", "delete"}

WireErrors == {e \in FetchErrors : e.name = "TypeError"}

WireResponses ==
  {r \in Responses : r.status = 409 \/ (Ok(r) /\ r.body.kind = "json")}

\* this.fetchImpl(url, init) of requestInternal
Request(app, a) == [url |-> Path(a), init |-> RequestInit(app, a)]

\* mutant: the replay is sent without the body of the original request
ReplayRequestWithoutBody(op) ==
  [url |-> op.url, init |-> [op.init EXCEPT !.body = Undefined]]

\* this.fetchImpl(operation.url, operation.init) of flushOfflineQueue
ReplayRequest(op) == [url |-> op.url, init |-> op.init]

\* what the transport was called with by the call of slot p
Handed(p) ==
  IF call[p] = "request" THEN Request(appId, api[p])
  ELSE ReplayRequest(cur[p])

\* the transport notes the request of a call whose catch block queues it
Observe(p) ==
  attempts' = IF enqCount' # enqCount
                THEN Append(attempts, Handed(p))
                ELSE attempts

InitWire ==
  /\ wire = Nothing
  /\ decoded = Nothing
  /\ appId \in AppIds
  /\ attempts = <<>>
  /\ atStart = [p \in Procs |-> 0]
  /\ offlineMode \in BOOLEAN
  /\ offlineQueue = <<>>
  /\ enqCount = 0
  /\ replayLog = <<>>
  /\ ncalls = 0
  /\ last = NoCall
  /\ pc = [p \in Procs |-> "idle"]
  /\ call = [p \in Procs |-> "none"]
  /\ api = [p \in Procs |-> "none"]
  /\ cur = [p \in Procs |-> NoOp]
  /\ resp = [p \in Procs |-> NoResp]
  /\ nfetch = [p \in Procs |-> 0]
  /\ snap = [p \in Procs |-> <<>>]
  /\ server = <<>>
  /\ nextId = 1
  /\ envOps = 0
  /\ fcalls = 0
  /\ fc = NoFacadeCall
  /\ flast = NoResult
  /\ metadata = <<>>

WireStep(p) ==
  \/ \E a \in WireApis : StartRequest(p, a)
  \/ \E e \in WireErrors : RequestFetchRejects(p, e)
  \/ \E r \in WireResponses : FetchResolves(p, r)
  \/ RequestParseErrorDone(p)
  \/ RequestParserDone(p)
  \/ StartFlush(p)
  \/ \E e \in WireErrors : FlushFetchRejects(p, e)
  \/ FlushParseErrorDone(p)
  \/ FlushParserDone(p)

NextWire ==
  /\ \E p \in Procs : WireStep(p) /\ Observe(p)
  /\ UNCHANGED <<appId, atStart, facadeVars, codecVars>>

SpecWire == InitWire /\ [][NextWire]_vars

(***************************************************************************)
(* A flush left alone.  SpecQuiet lets the caller start a flush only when  *)
(* no request and no other flush is in flight, and start no request while  *)
(* a flush runs, so that nothing is enqueued during a flush.  The          *)
(* transport settles every replay and the event loop runs every            *)
(* continuation of a flush.                                                *)
(***************************************************************************)
NoRequestRunning == \A p \in Procs : call[p] = "request" => Free(p)

\* flushOfflineQueue() is called: the caller notes the length of the queue
StartFlushQuiet(p) ==
  /\ NoRequestRunning
  /\ StartFlushAlone(p)
  /\ atStart' = [atStart EXCEPT ![p] = Len(offlineQueue)]

\* the replay of a flush is answered, or the flush resumes after an await
FlushAdvances(p) ==
  \/ call[p] = "flush" /\ \E r \in Responses : FetchResolves(p, r)
  \/ FlushContinues(p)

\* the requests that fill the queue are those of SpecWire
QuietStep(p) ==
  \/ /\ NoFlushRunning
     /\ \/ \E a \in WireApis : StartRequest(p, a)
        \/ \E e \in WireErrors : RequestFetchRejects(p, e)
        \/ \E r \in WireResponses : FetchResolves(p, r)
        \/ RequestParseErrorDone(p)
        \/ RequestParserDone(p)
     /\ UNCHANGED atStart
  \/ StartFlushQuiet(p)
  \/ FlushAdvances(p) /\ UNCHANGED atStart

NextQuiet ==
  /\ \E p \in Procs : QuietStep(p)
  /\ UNCHANGED <<appId, attempts, facadeVars, codecVars>>

SpecQuiet ==
  /\ Init
  /\ [][NextQuiet]_vars
  /\ \A p \in Procs :
       WF_vars(/\ FlushAdvances(p)
               /\ UNCHANGED <<facadeVars, codecVars, wireVars>>)

(***************************************************************************)
(* The server and the transport as a facade call sees them.  An answer is  *)
(* what one transport call ends with: err when fetch rejected, else the    *)
(* response and the collections or records its JSON body holds.            *)
(***************************************************************************)
Names == {"users", "Users", "orders"}

\* String.prototype.toLowerCase over Names
Lower(n) == IF n = "Users" THEN "users" ELSE n

\* the names ensureCollection is called with
EnsureNames == {"users", "Users"}

\* the lists handed to delete, purge and create: up to MaxBatch identifiers,
\* no two neighbours alike
Lists ==
  { [i \in 1..n |-> IF i % 2 = 1 THEN first ELSE second] :
      n \in 0..MaxBatch,
      <<first, second>> \in {<<"a", "b">>, <<"b", "a">>} }

Answer(e, r, cols) == [err |-> e, resp |-> r, cols |-> cols]

\* a transport call that did not bring the server's regular answer: no
\* response, a body that is not JSON, a failure status, or no content
Faults ==
  { Answer(e, NoResp, <<>>) : e \in FetchErrors }
  \cup { Answer(NoErr, r, <<>>) :
           r \in { Response(200, "OK", [NoBody EXCEPT !.kind = "invalid"]),
                   Response(204, "No Content", NoBody),
                   Response(511, "Network Authentication Required", NoBody) } }

\* the server holds a collection of that name (names are unique whatever
\* their case)
ServerHas(name) ==
  \E i \in DOMAIN server : Lower(server[i].name) = Lower(name)

ServerFind(name) ==
  server[CHOOSE i \in DOMAIN server : Lower(server[i].name) = Lower(name)]

\* the server's regular answer to the request a of a call for collection
\* name, or for the documents list
ServerAnswer(a, name, list) ==
  CASE a = "createCollection" ->
         IF ServerHas(name)
           THEN Answer(NoErr,
                       Response(409, "Conflict",
                                [NoBody EXCEPT !.kind = "json",
                                               !.error = "conflict"]),
                       <<>>)
           ELSE Answer(NoErr,
                       Response(201, "Created", [NoBody EXCEPT !.kind = "json"]),
                       <<[id |-> nextId, name |-> name]>>)
    [] a = "updateCollection" ->
         IF ServerHas(name)
           THEN Answer(NoErr,
                       Response(200, "OK", [NoBody EXCEPT !.kind = "json"]),
                       <<ServerFind(name)>>)
           ELSE Answer(NoErr,
                       Response(404, "Not Found",
                                [NoBody EXCEPT !.kind = "json",
                                               !.error = "not_found"]),
                       <<>>)
    [] a = "collections" ->
         Answer(NoErr, Response(200, "OK", [NoBody EXCEPT !.kind = "json"]),
                server)
    [] a = "createBulk" ->
         Answer(NoErr, Response(200, "OK", [NoBody EXCEPT !.kind = "json"]),
                [i \in 1..Len(list) |-> [id |-> i, name |-> list[i]]])
    [] a \in {"delete", "purge"} ->
         Answer(NoErr, Response(204, "No Content", NoBody), <<>>)

Answers(a, name, list) == Faults \cup {ServerAnswer(a, name, list)}

(***************************************************************************)
(* requestInternal as one facade call runs it: from the answer of the      *)
(* transport to what the awaited promise settles with.                     *)
(***************************************************************************)
\* the error the try block ends with, NoErr when the parser returned
TryError(a, ans) ==
  IF ans.err # NoErr THEN ans.err
  ELSE IF ~Ok(ans.resp) THEN parseError(ans.resp)
  ELSE IF ParserThrows(Parser(a), ans.resp) THEN ParseFailure
  ELSE NoErr

\* the parser returned undefined: the void parser, a 204 or an empty text
ReturnsUndefined(a, ans) ==
  \/ Parser(a) = "void"
  \/ ans.resp.status = 204
  \/ ans.resp.body.kind = "empty"

\* mutant: the catch block rethrows what it caught, queued or not
ThrownAsCaught(mode, n, a, caught) == caught

\* the catch block: what requestInternal rejects with, NoErr when it resolved
Thrown(mode, n, a, caught) ==
  IF caught = NoErr THEN NoErr
  ELSE IF ShouldQueue(mode, a, caught)
    THEN OfflineError("Request queued while offline", QueuedOperation(n, a))
    ELSE caught

UndefinedPayload ==
  PlainError("TypeError", "Cannot read properties of undefined")

\* the transport call a facade call makes: pending until it is answered
Sent(a, arg) ==
  [api |-> a, arg |-> arg, status |-> 0, caught |-> NoErr, pending |-> TRUE]

\* the pending transport call, the last one, is answered
Completed(reqs, ans, caught) ==
  [reqs EXCEPT ![Len(reqs)] =
     [@ EXCEPT !.status = ans.resp.status, !.caught = caught,
               !.pending = FALSE]]

\* what the transport call a, answered with ans, does to the queue and to
\* the server
Transport(a, name, list, ans, caught) ==
  /\ IF caught # NoErr /\ ShouldQueue(offlineMode, a, caught)
       THEN /\ offlineQueue' = Push(offlineQueue,
                                    QueuedOperation(enqCount + 1, a))
            /\ enqCount' = enqCount + 1
       ELSE UNCHANGED <<offlineQueue, enqCount>>
  /\ IF a = "createCollection" /\ ans = ServerAnswer(a, name, list)
        /\ ~ServerHas(name)
       THEN /\ server' = Append(server, [id |-> nextId, name |-> name])
            /\ nextId' = nextId + 1
       ELSE UNCHANGED <<server, nextId>>

\* the facade call in flight settles
Settle(st, err, val, rq) ==
  /\ flast' = FSettled(fc, st, err, val, rq)
  /\ fc' = NoFacadeCall

(***************************************************************************)
(* ensureCollection and describeCollection.                                *)
(***************************************************************************)
\* mutant: a conflict is treated like any other failure
ConflictNever(err) == FALSE

\* error instanceof TinyDBError && error.status === 409
Conflict(err) == err.name = "TinyDBError" /\ err.status = 409

\* mutant: the conflict is always resolved by the listing
FollowUpAlwaysLookup(schema) == "collections"

\* mutant: the conflict is answered by sending the create request again
FollowUpCreateAgain(schema) == "createCollection"

\* if (schemaStr) the update, otherwise describeCollection
FollowUp(schema) == IF schema THEN "updateCollection" ELSE "collections"

\* mutant: the listed name is compared as it is
NameMatchesListedAsIs(col, name) == col.name = Lower(name)

\* col.name.toLowerCase() === lowered
NameMatches(col, name) == Lower(col.name) = Lower(name)

NotFound == TinyDBError("collection not found", 404, "collection_not_found")

\* listings.find(...): the first collection of the listing that matches
Find(cols, name) ==
  LET hits == { i \in DOMAIN cols : NameMatches(cols[i], name) }
  IN  IF hits = {} THEN <<>>
      ELSE <<cols[CHOOSE i \in hits : \A j \in hits : i <= j]>>

\* the body is built and the create request is sent
StartEnsure(name, schema) ==
  /\ fc.kind = "none"
  /\ fcalls < MaxFacadeCalls
  /\ fcalls' = fcalls + 1
  /\ fc' = [NoFacadeCall EXCEPT !.kind = "ensure", !.pc = "createCollection",
                                !.name = name, !.schema = schema,
                                !.reqs = <<Sent("createCollection", name)>>,
                                !.held = IF /\ flast.kind = "ensure"
                                            /\ flast.name = name
                                            /\ ~flast.schema /\ ~schema
                                           THEN flast.value ELSE <<>>]
  /\ flast' = NoResult
  /\ UNCHANGED <<offlineMode, offlineQueue, enqCount, slotVars, server,
                 nextId, envOps>>

\* the awaited request settles: the call returns, throws, or on a conflict
\* sends its follow-up request
EnsureAnsweredWith(ans) ==
  /\ fc.kind = "ensure"
  /\ LET a == fc.pc
         caught == TryError(a, ans)
         err == Thrown(offlineMode, enqCount + 1, a, caught)
         reqs == Completed(fc.reqs, ans, caught)
         found == Find(ans.cols, fc.name)
     IN  /\ Transport(a, fc.name, fc.list, ans, caught)
         /\ IF err # NoErr
              THEN IF a = "createCollection" /\ Conflict(err)
                     THEN /\ fc' = [fc EXCEPT
                                      !.pc = FollowUp(fc.schema),
                                      !.reqs = Append(reqs,
                                                 Sent(FollowUp(fc.schema),
                                                      fc.name))]
                          /\ UNCHANGED flast
                     ELSE Settle("rejected", err, <<>>, reqs)
              ELSE IF ReturnsUndefined(a, ans)
                     THEN Settle("rejected", UndefinedPayload, <<>>, reqs)
              ELSE IF a = "collections"
                     THEN IF found = <<>>
                            THEN Settle("rejected", NotFound, <<>>, reqs)
                            ELSE Settle("resolved", NoErr, found, reqs)
              ELSE Settle("resolved", NoErr, <<ans.cols[1]>>, reqs)
  /\ UNCHANGED <<offlineMode, slotVars, envOps, fcalls>>

\* the transport answers the request ensureCollection awaits
EnsureAnswered ==
  /\ fc.kind = "ensure"
  /\ \E ans \in Answers(fc.pc, fc.name, fc.list) : EnsureAnsweredWith(ans)

(***************************************************************************)
(* CollectionClient.delete and purge with a list, and create with a list.  *)
(***************************************************************************)
\* mutant: the list is walked from its end
ItemFromEnd(list, k) == list[Len(list) + 1 - k]

\* for (const docId of id): the k-th identifier
Item(list, k) == list[k]

\* mutant: an empty list is sent like any other
EmptyBulkNever(docs) == FALSE

\* docOrDocs.length === 0
EmptyBulk(docs) == Len(docs) = 0

\* delete(ids) or purge(ids): the loop is entered and the first request sent
StartBatch(kind, ids) ==
  /\ fc.kind = "none"
  /\ fcalls < MaxFacadeCalls
  /\ fcalls' = fcalls + 1
  /\ LET c == [NoFacadeCall EXCEPT !.kind = kind, !.list = ids]
     IN  IF Len(ids) = 0
           THEN /\ flast' = FSettled(c, "resolved", NoErr, <<>>, <<>>)
                /\ UNCHANGED fc
           ELSE /\ fc' = [c EXCEPT !.pc = kind, !.k = 1,
                                   !.reqs = <<Sent(kind, Item(ids, 1))>>]
                /\ flast' = NoResult
  /\ UNCHANGED <<offlineMode, offlineQueue, enqCount, slotVars, server,
                 nextId, envOps>>

\* await this.delete(docId) settles: the loop goes on, ends or throws
BatchAnswered ==
  /\ fc.kind \in {"delete", "purge"}
  /\ \E ans \in Answers(fc.pc, fc.name, fc.list) :
       LET a == fc.pc
           caught == TryError(a, ans)
           err == Thrown(offlineMode, enqCount + 1, a, caught)
           reqs == Completed(fc.reqs, ans, caught)
       IN  /\ Transport(a, fc.name, fc.list, ans, caught)
           /\ IF err # NoErr
                THEN Settle("rejected", err, <<>>, reqs)
                ELSE IF fc.k < Len(fc.list)
                       THEN /\ fc' = [fc EXCEPT
                                        !.k = fc.k + 1,
                                        !.reqs = Append(reqs,
                                                   Sent(a, Item(fc.list,
                                                                fc.k + 1)))]
                            /\ UNCHANGED flast
                       ELSE Settle("resolved", NoErr, <<>>, reqs)
  /\ UNCHANGED <<offlineMode, slotVars, envOps, fcalls>>

\* create(docs) with a list: [] at once, or the bulk request is sent
StartCreate(docs) ==
  /\ fc.kind = "none"
  /\ fcalls < MaxFacadeCalls
  /\ fcalls' = fcalls + 1
  /\ LET c == [NoFacadeCall EXCEPT !.kind = "create", !.list = docs]
     IN  IF EmptyBulk(docs)
           THEN /\ flast' = FSettled(c, "resolved", NoErr, <<>>, <<>>)
                /\ UNCHANGED fc
           ELSE /\ fc' = [c EXCEPT !.pc = "createBulk",
                                   !.reqs = <<Sent("createBulk", "bulk")>>]
                /\ flast' = NoResult
  /\ UNCHANGED <<offlineMode, offlineQueue, enqCount, slotVars, server,
                 nextId, envOps>>

\* the bulk request settles: response?.items ?? [], or the error
CreateAnswered ==
  /\ fc.kind = "create"
  /\ \E ans \in Answers(fc.pc, fc.name, fc.list) :
       LET a == fc.pc
           caught == TryError(a, ans)
           err == Thrown(offlineMode, enqCount + 1, a, caught)
           reqs == Completed(fc.reqs, ans, caught)
       IN  /\ Transport(a, fc.name, fc.list, ans, caught)
           /\ IF err # NoErr
                THEN Settle("rejected", err, <<>>, reqs)
                ELSE Settle("resolved", NoErr, ans.cols, reqs)
  /\ UNCHANGED <<offlineMode, slotVars, envOps, fcalls>>

(***************************************************************************)
(* Other clients of the tenant.                                            *)
(***************************************************************************)
\* another client creates a collection
ServerCreates(name) ==
  /\ envOps < MaxEnvOps
  /\ ~ServerHas(name)
  /\ envOps' = envOps + 1
  /\ server' = Append(server, [id |-> nextId, name |-> name])
  /\ nextId' = nextId + 1
  /\ UNCHANGED <<offlineMode, offlineQueue, enqCount, slotVars, fcalls, fc,
                 flast>>

\* another client removes a collection
ServerRemoves(i) ==
  /\ envOps < MaxEnvOps
  /\ i \in DOMAIN server
  /\ envOps' = envOps + 1
  /\ server' = [j \in 1..(Len(server) - 1) |->
                  IF j < i THEN server[j] ELSE server[j + 1]]
  /\ UNCHANGED <<offlineMode, offlineQueue, enqCount, slotVars, nextId,
                 fcalls, fc, flast>>

FacadeStep ==
  \/ \E name \in EnsureNames, schema \in BOOLEAN : StartEnsure(name, schema)
  \/ EnsureAnswered
  \/ \E kind \in {"delete", "purge"}, ids \in Lists : StartBatch(kind, ids)
  \/ BatchAnswered
  \/ \E docs \in Lists : StartCreate(docs)
  \/ CreateAnswered
  \/ \E name \in Names : ServerCreates(name)
  \/ \E i \in 1..MaxEnvOps : ServerRemoves(i)

NextFacade == FacadeStep /\ UNCHANGED <<metadata, codecVars, wireVars>>

\* one caller awaiting each facade call before the next, against the server
SpecFacade == Init /\ [][NextFacade]_vars

(***************************************************************************)
(* A collection facade and the descriptor it caches.  The caller holds the *)
(* CollectionClient that `await db.collection("users")` gave it when the   *)
(* collection was created, and goes on using it and the client.            *)
(***************************************************************************)
FacadeName == "users"

\* mutant: a call that fails clears the cached descriptor
CachedOrCleared(meta, settled) ==
  IF settled.state = "resolved" THEN settled.value
  ELSE IF settled.state = "rejected" THEN <<>>
  ELSE meta

\* this.metadata = meta, reached only when the awaited call resolved: in
\* refresh and in the onResolved callback of schema() and primary_key()
Cached(meta, settled) ==
  IF settled.state = "resolved" THEN settled.value ELSE meta

\* facade.schema(definition) or facade.primary_key(config), then awaited:
\* ensureCollection with or without a schema, for the name of the facade
StartBuilder(schema) ==
  /\ fc.kind = "none"
  /\ fcalls < MaxFacadeCalls
  /\ fcalls' = fcalls + 1
  /\ fc' = [NoFacadeCall EXCEPT !.kind = "ensure", !.pc = "createCollection",
                                !.name = FacadeName, !.schema = schema,
                                !.reqs = <<Sent("createCollection",
                                                FacadeName)>>,
                                !.onResolved = TRUE]
  /\ flast' = NoResult
  /\ UNCHANGED <<offlineMode, offlineQueue, enqCount, slotVars, server,
                 nextId, envOps, metadata>>

\* the ensureCollection of a builder goes on; when it resolves, a builder
\* that has an onResolved callback calls it
BuilderAnswered ==
  /\ EnsureAnswered
  /\ metadata' = IF fc.onResolved THEN Cached(metadata, flast') ELSE metadata

\* facade.refresh(): describeCollection sends the listing request
StartRefresh ==
  /\ fc.kind = "none"
  /\ fcalls < MaxFacadeCalls
  /\ fcalls' = fcalls + 1
  /\ fc' = [NoFacadeCall EXCEPT !.kind = "refresh", !.pc = "collections",
                                !.name = FacadeName,
                                !.reqs = <<Sent("collections", FacadeName)>>]
  /\ flast' = NoResult
  /\ UNCHANGED <<offlineMode, offlineQueue, enqCount, slotVars, server,
                 nextId, envOps, metadata>>

\* the listing request settles: describeCollection returns the collection
\* found or throws, and refresh assigns what it returned
RefreshAnswered ==
  /\ fc.kind = "refresh"
  /\ \E ans \in Answers(fc.pc, fc.name, fc.list) :
       LET a == fc.pc
           caught == TryError(a, ans)
           err == Thrown(offlineMode, enqCount + 1, a, caught)
           reqs == Completed(fc.reqs, ans, caught)
           found == Find(ans.cols, fc.name)
       IN  /\ Transport(a, fc.name, fc.list, ans, caught)
           /\ IF err # NoErr
                THEN Settle("rejected", err, <<>>, reqs)
                ELSE IF ReturnsUndefined(a, ans)
                       THEN Settle("rejected", UndefinedPayload, <<>>, reqs)
                ELSE IF found = <<>>
                       THEN Settle("rejected", NotFound, <<>>, reqs)
                ELSE Settle("resolved", NoErr, found, reqs)
  /\ metadata' = Cached(metadata, flast')
  /\ UNCHANGED <<offlineMode, slotVars, envOps, fcalls>>

\* the document operations of the facade, and a builder of the client
DocumentStep ==
  \/ \E kind \in {"delete", "purge"}, ids \in Lists : StartBatch(kind, ids)
  \/ BatchAnswered
  \/ \E docs \in Lists : StartCreate(docs)
  \/ CreateAnswered
  \/ \E schema \in BOOLEAN : StartEnsure("Users", schema)

OthersStep ==
  \/ ServerCreates("orders")
  \/ \E i \in 1..MaxEnvOps : ServerRemoves(i)

CacheStep ==
  \/ \E schema \in BOOLEAN : StartBuilder(schema)
  \/ BuilderAnswered
  \/ StartRefresh
  \/ RefreshAnswered
  \/ DocumentStep /\ UNCHANGED metadata
  \/ OthersStep /\ UNCHANGED metadata

NextCache == CacheStep /\ UNCHANGED <<codecVars, wireVars>>

InitCache ==
  /\ wire = Nothing
  /\ decoded = Nothing
  /\ appId = Undefined
  /\ attempts = <<>>
  /\ atStart = [p \in Procs |-> 0]
  /\ offlineMode \in BOOLEAN
  /\ offlineQueue = <<>>
  /\ enqCount = 0
  /\ replayLog = <<>>
  /\ ncalls = 0
  /\ last = NoCall
  /\ pc = [p \in Procs |-> "idle"]
  /\ call = [p \in Procs |-> "none"]
  /\ api = [p \in Procs |-> "none"]
  /\ cur = [p \in Procs |-> NoOp]
  /\ resp = [p \in Procs |-> NoResp]
  /\ nfetch = [p \in Procs |-> 0]
  /\ snap = [p \in Procs |-> <<>>]
  /\ server = <<[id |-> 1, name |-> FacadeName]>>
  /\ nextId = 2
  /\ envOps = 0
  /\ fcalls = 0
  /\ fc = NoFacadeCall
  /\ flast = NoResult
  /\ metadata = <<[id |-> 1, name |-> FacadeName]>>

SpecCache == InitCache /\ [][NextCache]_vars

(***************************************************************************)
(* A CollectionBuilder with its configuration, awaited or resolved by      *)
(* sync(), and the bodies of the requests ensureCollection sends for it.   *)
(***************************************************************************)
\* the configurations primary_key(config) is called with, and none: the
\* empty one, each field alone, an empty field name alone and with auto,
\* and all three fields
PkConfigs ==
  {NoPrimaryKey,
   PrimaryKey(Undefined, Undefined, Undefined),
   PrimaryKey("sku", Undefined, Undefined),
   PrimaryKey(Undefined, "string", Undefined),
   PrimaryKey(Undefined, Undefined, "true"),
   PrimaryKey(Undefined, Undefined, "false"),
   PrimaryKey("", Undefined, Undefined),
   PrimaryKey("", Undefined, "true"),
   PrimaryKey("", Undefined, "false"),
   PrimaryKey("sku", "string", "true"),
   PrimaryKey("sku", "string", "false")}

Vias == {"await", "sync"}

\* sync(): ensureCollection({ name, schema: schemaDef, primaryKey: pkConfig })
SyncInput(name, schemaDef, pkConfig) ==
  [name |-> name, schema |-> schemaDef, primaryKey |-> pkConfig]

\* mutant: awaiting the builder resolves the name alone
AwaitInputNameOnly(name, schemaDef, pkConfig) ==
  [name |-> name, schema |-> FALSE, primaryKey |-> NoPrimaryKey]

\* then() -> resolve(): sync() when a schema or a primary key is set,
\* otherwise ensureCollection({ name })
AwaitInput(name, schemaDef, pkConfig) ==
  IF schemaDef \/ pkConfig.supplied
    THEN SyncInput(name, schemaDef, pkConfig)
    ELSE [name |-> name, schema |-> FALSE, primaryKey |-> NoPrimaryKey]

\* stringifySchema(input.schema) of a schema definition
SchemaStr == "{\"fields\":{}}"

\* mutant: auto is copied only when it is truthy
PrimaryKeyBlockTruthyAuto(pk) ==
  [k \in { k \in {"field", "type"} : Truthy(pk[k]) }
          \cup (IF pk.auto = "true" THEN {"auto"} ELSE {}) |-> pk[k]]

\* const pk = {}; field and type are copied when truthy, auto when it is
\* not undefined
PrimaryKeyBlock(pk) ==
  [k \in { k \in {"field", "type"} : Truthy(pk[k]) }
          \cup (IF pk.auto # Undefined THEN {"auto"} ELSE {}) |-> pk[k]]

\* the body of the create request; an absent key is Undefined, the
\* primary_key block is in a list that is empty when the key is absent
CreateBody(input) ==
  [name |-> input.name,
   schema |-> IF input.schema THEN SchemaStr ELSE Undefined,
   app_id |-> IF Truthy(appId) THEN appId ELSE Undefined,
   primary_key |->
     IF input.primaryKey.supplied
        /\ DOMAIN PrimaryKeyBlock(input.primaryKey) # {}
       THEN <<PrimaryKeyBlock(input.primaryKey)>>
       ELSE <<>>]

\* mutant: the update carries the primary key block as well
UpdateBodyWithPrimaryKey(input) ==
  [schema |-> SchemaStr,
   primary_key |-> <<PrimaryKeyBlock(input.primaryKey)>>]

\* body: { schema: schemaStr }
UpdateBody(input) == [schema |-> SchemaStr]

NoRequestBody == [none |-> TRUE]

\* the body of the i-th request of the ensureCollection call c
RequestBody(c, i) ==
  LET input == [name |-> c.name, schema |-> c.schema,
                primaryKey |-> c.primaryKey]
  IN  CASE c.reqs[i].api = "createCollection" -> CreateBody(input)
        [] c.reqs[i].api = "updateCollection" -> UpdateBody(input)
        [] OTHER -> NoRequestBody

\* a builder is configured and then awaited or sync()ed: the create request
\* of ensureCollection is sent. The builder of db.collection(name) has no
\* callback; the builder of facade.schema() or facade.primary_key() has the
\* callback that stores the descriptor, and a schema or a primary key
StartConfigured(via, schemaDef, pkConfig, onResolved) ==
  LET input == IF via = "sync"
                 THEN SyncInput(FacadeName, schemaDef, pkConfig)
                 ELSE AwaitInput(FacadeName, schemaDef, pkConfig)
  IN  /\ fc.kind = "none"
      /\ fcalls < MaxFacadeCalls
      /\ onResolved => schemaDef \/ pkConfig.supplied
      /\ fcalls' = fcalls + 1
      /\ fc' = [NoFacadeCall EXCEPT
                  !.kind = "ensure", !.pc = "createCollection",
                  !.name = input.name, !.schema = input.schema,
                  !.primaryKey = input.primaryKey,
                  !.reqs = <<Sent("createCollection", input.name)>>,
                  !.onResolved = onResolved, !.via = via,
                  !.schemaDef = schemaDef, !.pkConfig = pkConfig]
      /\ flast' = NoResult
      /\ UNCHANGED <<offlineMode, offlineQueue, enqCount, slotVars, server,
                     nextId, envOps, metadata>>

\* the server may also answer the follow-up request with a conflict
EnsureAnswers(a, name) ==
  Answers(a, name, <<>>)
  \cup (IF a = "createCollection" THEN {}
        ELSE {Answer(NoErr,
                     Response(409, "Conflict",
                              [NoBody EXCEPT !.kind = "json",
                                             !.error = "conflict"]),
                     <<>>)})

\* the request the call awaits is answered; when the call resolves the
\* callback of the builder stores the descriptor
ConfiguredAnswered ==
  /\ fc.kind = "ensure"
  /\ \E ans \in EnsureAnswers(fc.pc, fc.name) : EnsureAnsweredWith(ans)
  /\ metadata' = IF fc.onResolved THEN Cached(metadata, flast') ELSE metadata

EnsureStep ==
  \/ \E via \in Vias, schemaDef \in BOOLEAN, pkConfig \in PkConfigs,
        onResolved \in BOOLEAN :
       StartConfigured(via, schemaDef, pkConfig, onResolved)
  \/ ConfiguredAnswered
  \/ OthersStep /\ UNCHANGED metadata

NextEnsure == EnsureStep /\ UNCHANGED <<codecVars, wireVars>>

SpecEnsure == InitCache /\ [][NextEnsure]_vars

(***************************************************************************)
(* The payload codec: parseDocument.  A JavaScript value is its type and,  *)
(* for a primitive, its text; an object or array also has properties,      *)
(* whose values are primitives.                                            *)
(***************************************************************************)
Prim(type, text) == [type |-> type, text |-> text]

NoProps == [k \in {} |-> Prim("undefined", "")]

Val(type, text) == [type |-> type, text |-> text, props |-> NoProps]

\* an object with one property, or none when key is ""
Obj(key, v) ==
  [type |-> "object", text |-> "",
   props |-> [k \in {key} \ {""} |-> v]]

\* the typeof operator
TypeOf(v) == IF v.type \in {"null", "array"} THEN "object" ELSE v.type

\* !v
Falsy(v) ==
  \/ v.type \in {"undefined", "null"}
  \/ v.type = "string" /\ v.text = ""
  \/ v.type = "number" /\ v.text \in {"0", "NaN"}
  \/ v.type = "boolean" /\ v.text = "false"

\* v[key]
GetProp(v, key) ==
  IF key \in DOMAIN v.props THEN v.props[key] ELSE Prim("undefined", "")

\* v[key] = x
SetProp(v, key, x) ==
  [v EXCEPT !.props = [k \in DOMAIN v.props \cup {key} |->
                         IF k = key THEN x ELSE v.props[k]]]

\* the texts a data field arrives with, and what JSON.parse makes of each
\* (an undefined value stands for the SyntaxError it throws)
JSONParse(text) ==
  CASE text = "123" -> Val("number", "123")
    [] text = "0" -> Val("number", "0")
    [] text = "\"text\"" -> Val("string", "text")
    [] text = "null" -> Val("null", "")
    [] text = "true" -> Val("boolean", "true")
    [] text = "[1]" -> Val("array", "")
    [] text = "{}" -> Obj("", Prim("undefined", ""))
    [] text = "{\"a\":1}" -> Obj("a", Prim("number", "1"))
    [] text = "{\"_doc_id\":\"d7\"}" -> Obj("_doc_id", Prim("string", "d7"))
    [] text = "{\"_doc_id\":\"\"}" -> Obj("_doc_id", Prim("string", ""))
    [] text = "{\"_doc_id\":5}" -> Obj("_doc_id", Prim("number", "5"))
    [] text = "{\"_doc_id\":null}" -> Obj("_doc_id", Prim("null", ""))
    [] OTHER -> Val("undefined", "")

DataTexts ==
  {"oops", "{\"a\":", "123", "0", "\"text\"", "null", "true", "[1]", "{}",
   "{\"a\":1}", "{\"_doc_id\":\"d7\"}", "{\"_doc_id\":\"\"}",
   "{\"_doc_id\":5}", "{\"_doc_id\":null}"}

\* the document payloads of the wire: data is absent, null or a string
DocumentPayloads ==
  [kind : {"payload"},
   id : {Prim("string", "r1"), Prim("string", "")},
   data : {Prim("undefined", ""), Prim("null", ""), Prim("string", "")}
            \cup {Prim("string", t) : t \in DataTexts},
   version : {Prim("undefined", ""), Prim("null", ""), Prim("number", "3"),
              Prim("number", "0"), Prim("number", "NaN"),
              Prim("string", "2")}]

\* if (!data || typeof data !== "object") data = {}
ObjectOrEmpty(data) ==
  IF Falsy(data) \/ TypeOf(data) # "object"
    THEN Obj("", Prim("undefined", ""))
    ELSE data

DocIdAlwaysRecordId(own, id) == id

\* const docId = data._doc_id ?? payload.id; data._doc_id is docId when it
\* is a non-empty string and payload.id otherwise
DocId(own, id) ==
  LET docId == IF own.type \in {"undefined", "null"} THEN id ELSE own
  IN  IF ~Falsy(docId) /\ TypeOf(docId) = "string" THEN docId ELSE id

VersionAsSent(version) == version

\* typeof version === "number" && !Number.isNaN(version) ? version : 1
Version(version) ==
  IF version.type = "number" /\ version.text # "NaN"
    THEN version
    ELSE Prim("number", "1")

parseDocument(payload) ==
  LET parsed == JSONParse(payload.data.text)
      data0 == IF Falsy(payload.data) THEN Obj("", Prim("undefined", ""))
               ELSE IF parsed.type = "undefined"
                 THEN Obj("_raw", payload.data)
                 ELSE parsed
      data == ObjectOrEmpty(data0)
  IN  [kind |-> "record",
       id |-> payload.id,
       data |-> SetProp(data, "_doc_id",
                        DocId(GetProp(data, "_doc_id"), payload.id)),
       version |-> Version(payload.version)]

\* the schema texts a collection descriptor arrives with
SchemaTexts == {"oops", "{\"a\":", "{}", "{\"a\":1}", "123", "null"}

\* the collection payloads of the wire: schema_json is absent, null or a
\* string; the other fields stand for the descriptor's remaining fields
CollectionPayloads ==
  [kind : {"collection"},
   id : {Prim("string", "c1")},
   name : {Prim("string", "users")},
   schema_json : {Prim("undefined", ""), Prim("null", ""), Prim("string", "")}
                   \cup {Prim("string", t) : t \in SchemaTexts},
   primary_key_field : {Prim("undefined", ""), Prim("string", "sku")}]

SchemaOfUncaught(schema_json) ==
  IF Falsy(schema_json) THEN Prim("undefined", "")
  ELSE JSONParse(schema_json.text)

\* let schema; if (payload.schema_json) try JSON.parse catch { _raw }
SchemaOf(schema_json) ==
  LET parsed == JSONParse(schema_json.text)
  IN  IF Falsy(schema_json) THEN Prim("undefined", "")
      ELSE IF parsed.type = "undefined"
        THEN Obj("_raw", schema_json)
        ELSE parsed

\* { ...payload, schema }
parseCollection(payload) ==
  [k \in DOMAIN payload \cup {"schema"} |->
     IF k = "schema" THEN SchemaOf(payload.schema_json) ELSE payload[k]]

\* a document payload arrives and is decoded
Decode ==
  /\ decoded = Nothing
  /\ wire.kind = "payload"
  /\ decoded' = parseDocument(wire)
  /\ UNCHANGED <<offlineMode, offlineQueue, enqCount, slotVars, facadeVars,
                 wire, wireVars>>

\* a collection payload arrives and is decoded
DecodeCollection ==
  /\ decoded = Nothing
  /\ wire.kind = "collection"
  /\ decoded' = parseCollection(wire)
  /\ UNCHANGED <<offlineMode, offlineQueue, enqCount, slotVars, facadeVars,
                 wire, wireVars>>

InitCodec ==
  /\ wire \in DocumentPayloads \cup CollectionPayloads
  /\ decoded = Nothing
  /\ appId = Undefined
  /\ attempts = <<>>
  /\ atStart = [p \in Procs |-> 0]
  /\ offlineMode = FALSE
  /\ offlineQueue = <<>>
  /\ enqCount = 0
  /\ replayLog = <<>>
  /\ ncalls = 0
  /\ last = NoCall
  /\ pc = [p \in Procs |-> "idle"]
  /\ call = [p \in Procs |-> "none"]
  /\ api = [p \in Procs |-> "none"]
  /\ cur = [p \in Procs |-> NoOp]
  /\ resp = [p \in Procs |-> NoResp]
  /\ nfetch = [p \in Procs |-> 0]
  /\ snap = [p \in Procs |-> <<>>]
  /\ server = <<>>
  /\ nextId = 1
  /\ envOps = 0
  /\ fcalls = 0
  /\ fc = NoFacadeCall
  /\ flast = NoResult
  /\ metadata = <<>>

NextCodec == Decode \/ DecodeCollection

\* parseDocument and parseCollection applied to every payload
SpecCodec == InitCodec /\ [][NextCodec]_vars

(***************************************************************************)
(* Vocabulary of the properties below.                                     *)
(***************************************************************************)
\* the call in slot p settles in this step
Settles(p) == pc[p] # "idle" /\ pc'[p] = "idle"

\* q2 is q with exactly one operation added at the tail
IsAppend(q, q2) == Len(q2) = Len(q) + 1 /\ SubSeq(q2, 1, Len(q)) = q

IsPrefix(q, q2) == Len(q) <= Len(q2) /\ SubSeq(q2, 1, Len(q)) = q

\* a flushOfflineQueue call starts in this step
FlushStarts ==
  /\ ncalls' = ncalls + 1
  /\ \A p \in Procs : call'[p] = "request" => call[p] = "request"

\* ids of the replays the flush in slot p has sent: with one flush at a
\* time, the last nfetch[p] entries of the replay log
SentBy(p) ==
  { replayLog[k] : k \in (Len(replayLog) - nfetch[p] + 1)..Len(replayLog) }

Replayed == { replayLog[k] : k \in DOMAIN replayLog }

\* operations are replayed in the order they were enqueued (an id is the
\* rank of its operation among the enqueues)
ReplayInEnqueueOrder ==
  /\ \A i, j \in DOMAIN replayLog : i < j => replayLog[i] <= replayLog[j]
  /\ \A i \in Replayed : \A j \in 1..i : j \in Replayed

\* the writes the offline queue is meant for
QueueEligible == {"create", "createBulk", "update", "patch", "delete", "purge"}

\* the facade call in flight settles in this step
FSettles == fc.kind # "none" /\ fc'.kind = "none"

\* the transport calls of the facade call that takes this step, after it
ReqsAfter == IF fc'.kind = "none" THEN flast'.reqs ELSE fc'.reqs

\* the transport call was answered with a success status and a body the
\* parser accepted
Succeeded(r) ==
  ~r.pending /\ r.status >= 200 /\ r.status <= 299 /\ r.caught = NoErr

(***************************************************************************)
(* Properties.                                                             *)
(***************************************************************************)
\* C1: with offlineMode enabled, a queue-eligible write whose transport call
\* rejects with a network-classified error appends exactly one operation, the
\* request of that call, at the tail of the queue and rejects with an
\* OfflineError carrying that same entry; the call has made one transport
\* call and nothing is replayed in that step.  All six writes are eligible.
C1_QueuedOnce ==
  /\ \A a \in QueueEligible : AllowOfflineQueue(a) /\ Method(a) # "GET"
  /\ [][\A p \in Procs :
          ( /\ call[p] = "request"
            /\ pc[p] = "fetch"
            /\ Settles(p)
            /\ offlineMode
            /\ api[p] \in QueueEligible
            /\ isNetworkError(last'.caught) )
          => /\ IsAppend(offlineQueue, offlineQueue')
             /\ last'.state = "rejected"
             /\ last'.error.name = "OfflineError"
             /\ last'.error.operation = offlineQueue'[Len(offlineQueue')]
             /\ last'.error.operation.url = Path(api[p])
             /\ last'.error.operation.method = Method(api[p])
             /\ \A i \in 1..Len(offlineQueue) :
                  offlineQueue[i].id # last'.error.operation.id
             /\ nfetch[p] = 1
             /\ replayLog' = replayLog]_vars

C1_Witness ==
  /\ offlineMode
  /\ last.call = "request"
  /\ last.error.name = "OfflineError"
  /\ last.caught.name = "TypeError"
  /\ last.error.operation.url = "/documents"
  /\ last.error.operation.method = "POST"
  /\ Len(offlineQueue) >= 2
  /\ offlineQueue[Len(offlineQueue)] = last.error.operation

\* C2: with one flush at a time, replays are sent in enqueue order; when the
\* replay of A fails, A is still the head, no operation behind it has been
\* sent by that flush, and the queue keeps everything it held when A was
\* sent, in the same order.
C2_ReplayOrder ==
  /\ []ReplayInEnqueueOrder
  /\ [][\A p \in Procs :
          (call[p] = "flush" /\ Settles(p) /\ last'.state = "rejected")
          => /\ offlineQueue' = offlineQueue
             /\ Len(offlineQueue) >= 1
             /\ offlineQueue[1] = cur[p]
             /\ \A i \in 2..Len(offlineQueue) :
                  offlineQueue[i].id \notin SentBy(p)
             /\ IsPrefix(snap[p], offlineQueue')]_vars

C2_Witness ==
  /\ last.call = "flush"
  /\ last.state = "rejected"
  /\ Len(offlineQueue) = 2
  /\ offlineQueue[1] = last.op
  /\ replayLog = <<offlineQueue[1].id>>
  /\ \A p \in Procs : Free(p)

\* C3: a request answered with a non-success status rejects with a
\* TinyDBError and leaves the offline queue as it was.
C3_HttpErrorNeverQueued ==
  [][\A p \in Procs :
       (call[p] = "request" /\ pc[p] = "parseError" /\ Settles(p))
       => /\ last'.error.name = "TinyDBError"
          /\ last'.error.status = resp[p].status
          /\ offlineQueue' = offlineQueue]_vars

\* C4: a failed request changes the queue only when offlineMode is enabled,
\* the method is not GET, the call allows queuing and the error is
\* network-classified; otherwise it rejects with the error it caught and the
\* queue is unchanged.
C4_QueueOnlyWhenEligible ==
  [][\A p \in Procs :
       (call[p] = "request" /\ Settles(p) /\ last'.state = "rejected")
       => IF /\ offlineMode
             /\ Method(api[p]) # "GET"
             /\ api[p] \in QueueEligible
             /\ isNetworkError(last'.caught)
            THEN IsAppend(offlineQueue, offlineQueue')
            ELSE /\ offlineQueue' = offlineQueue
                 /\ last'.error = last'.caught
                 /\ last'.error.name # "OfflineError"]_vars

C4_Witness ==
  /\ offlineMode
  /\ last.call = "request"
  /\ last.state = "rejected"
  /\ last.error.name = "TypeError"
  /\ last.error = last.caught
  /\ offlineQueue = <<>>
  /\ enqCount = 0

\* C5: with one flush at a time, when a replay fails (non-success status,
\* network error, parse error) the flush rejects with that replay's error,
\* never an OfflineError, nothing is enqueued, and the queue is the one the
\* replay was sent from, followed by what other calls appended meanwhile.
C5_ReplayFailureKeepsQueue ==
  [][\A p \in Procs :
       (call[p] = "flush" /\ Settles(p) /\ last'.state = "rejected")
       => /\ pc[p] = "fetch" => last'.error \in FetchErrors
          /\ pc[p] = "parseError" => last'.error = parseError(resp[p])
          /\ pc[p] = "parser" => last'.error = ParseFailure
          /\ last'.error.name # "OfflineError"
          /\ enqCount' = enqCount
          /\ offlineQueue' = offlineQueue
          /\ IsPrefix(snap[p], offlineQueue')
          /\ \A i \in (Len(snap[p]) + 1)..Len(offlineQueue') :
               \A j \in 1..Len(snap[p]) :
                 offlineQueue'[i].id > snap[p][j].id
          /\ Cardinality({ i \in 1..Len(offlineQueue') :
                             offlineQueue'[i].id = cur[p].id }) = 1]_vars

C5_Witness ==
  /\ last.call = "flush"
  /\ last.state = "rejected"
  /\ last.error.name = "TinyDBError"
  /\ Len(offlineQueue) >= 1
  /\ offlineQueue[1] = last.op

\* C6: with one flush at a time, every step leaves the queue as it is, adds
\* one operation at the tail, or removes the head; and the head is removed
\* only in the step in which the flush that sent it has its response, of
\* success status, parsed without error.
C6_RemovedOnlyAfterSuccess ==
  [][\/ offlineQueue' = offlineQueue
     \/ IsAppend(offlineQueue, offlineQueue')
     \/ /\ Len(offlineQueue) >= 1
        /\ offlineQueue' = Tail(offlineQueue)
        /\ \E p \in Procs :
             /\ call[p] = "flush"
             /\ pc[p] = "parser"
             /\ pc'[p] # "parser"
             /\ cur[p] = offlineQueue[1]
             /\ Ok(resp[p])
             /\ ~ParserThrows(cur[p].parser, resp[p])]_vars

C6_Witness ==
  \E p \in Procs :
    /\ call[p] = "flush"
    /\ pc[p] = "fetch"
    /\ cur[p].id = 2
    /\ replayLog = <<1, 2>>
    /\ offlineQueue = <<cur[p]>>

\* C7: a flush whose replay of the only queued operation gets a success
\* response its parser accepts resolves, and whenever a flush resolves the
\* queue is empty at that moment.
C7_FlushAfterOfflineCreate ==
  [][\A p \in Procs :
       /\ ( /\ call[p] = "flush"
            /\ pc[p] = "parser"
            /\ pc'[p] # "parser"
            /\ ~ParserThrows(cur[p].parser, resp[p])
            /\ Len(offlineQueue) <= 1 )
          => /\ last' = Settled("flush", "resolved", NoErr, NoErr, cur[p])
             /\ Settles(p)
             /\ offlineQueue' = <<>>
       /\ ( /\ call[p] = "flush"
            /\ Settles(p)
            /\ last'.state = "resolved" )
          => offlineQueue' = <<>>]_vars

C7_Witness ==
  /\ offlineMode
  /\ enqCount = 1
  /\ replayLog = <<1>>
  /\ last.call = "flush"
  /\ last.state = "resolved"
  /\ last.op.url = "/documents"
  /\ last.op.method = "POST"
  /\ offlineQueue = <<>>

\* C8: also when flushes overlap, an operation is removed from the queue
\* only by a flush whose replay of that same operation succeeded.
C8_ConcurrentFlushLosesNothing ==
  [][\A p \in Procs :
       ( /\ call[p] = "flush"
         /\ pc[p] = "parser"
         /\ pc'[p] # "parser"
         /\ offlineQueue' # offlineQueue )
       => /\ cur[p] = offlineQueue[1]
          /\ offlineQueue[1].id \in Replayed]_vars

\* C9: with one flush at a time, an operation enqueued while the flush is
\* suspended on a replay goes behind every queued operation, the operation
\* the flush removes is the one it replayed, and replays stay in enqueue
\* order.
C9_FifoUnderConcurrentWrites ==
  /\ []ReplayInEnqueueOrder
  /\ [][\A p \in Procs :
          FlushRunning(p)
          => /\ enqCount' # enqCount
                => /\ IsAppend(offlineQueue, offlineQueue')
                   /\ offlineQueue'[Len(offlineQueue')].id = enqCount'
                   /\ \A i \in 1..Len(offlineQueue) :
                        offlineQueue[i].id < enqCount'
             /\ offlineQueue' # offlineQueue /\ enqCount' = enqCount
                => /\ pc[p] = "parser"
                   /\ pc'[p] # "parser"
                   /\ offlineQueue[1] = cur[p]
                   /\ offlineQueue' = Tail(offlineQueue)]_vars

C9_Witness ==
  \E p \in Procs :
    /\ FlushRunning(p)
    /\ snap[p] = <<cur[p]>>
    /\ Len(offlineQueue) = 2
    /\ offlineQueue[1] = cur[p]
    /\ offlineQueue[2].id = enqCount
    /\ replayLog = <<cur[p].id>>

\* C10: a flush started on an empty queue resolves at once, without a
\* transport call and with the queue still empty, also after an earlier
\* flush emptied the queue.
C10_FlushEmptyQueue ==
  [][(FlushStarts /\ offlineQueue = <<>>)
     => /\ last' = Settled("flush", "resolved", NoErr, NoErr, NoOp)
        /\ offlineQueue' = <<>>
        /\ replayLog' = replayLog
        /\ nfetch' = nfetch
        /\ pc' = pc]_vars

C10_Witness ==
  /\ last = Settled("flush", "resolved", NoErr, NoErr, NoOp)
  /\ replayLog = <<1>>
  /\ enqCount = 1
  /\ offlineQueue = <<>>
  /\ \A p \in Procs : Free(p)

\* C11: a queued operation is sent to the transport only by a step of
\* flushOfflineQueue (the start of a flush, or a flush going on to the next
\* operation after a replay succeeded), and then it is the head of the queue;
\* every step of a document request (a read, a write, a query, failing or
\* succeeding) leaves the replay log alone, and a request makes one
\* transport call.  The requests of a collection resolution are
\* requestInternal calls with the options of one of the calls issued here.
C11_ReplayOnlyInFlush ==
  /\ \A c \in CollectionCalls :
       \E a \in Apis :
         /\ (Method(a) = "GET") = (Method(c) = "GET")
         /\ AllowOfflineQueue(a) = AllowOfflineQueue(c)
         /\ Parser(a) = Parser(c)
  /\ [][/\ replayLog' # replayLog
           => /\ \/ FlushStarts
                 \/ \E p \in Procs :
                      call[p] = "flush" /\ pc[p] = "parser" /\ pc'[p] = "fetch"
              /\ Len(offlineQueue') >= 1
              /\ replayLog' = Append(replayLog, offlineQueue'[1].id)
        /\ \A p \in Procs :
             ( \/ call[p] = "request" /\ pc'[p] # pc[p]
               \/ call'[p] = "request" /\ pc'[p] # pc[p] )
             => /\ replayLog' = replayLog
                /\ nfetch'[p] <= 1]_vars

C11_Witness ==
  /\ enqCount = 2
  /\ Len(offlineQueue) = 2
  /\ replayLog = <<>>
  /\ last.call = "request"
  /\ last.state = "resolved"

\* C12: without the caller invoking flushOfflineQueue, every operation that
\* is in the queue when a later request succeeds (the transport works again)
\* is eventually re-sent.
C12_QueuedEventuallyResent ==
  \A i \in 1..MaxCalls :
    ( /\ \E k \in DOMAIN offlineQueue : offlineQueue[k].id = i
      /\ last.call = "request"
      /\ last.state = "resolved" )
    ~> (i \in Replayed)

\* C13: with offlineMode enabled, a query() whose transport call rejects with
\* a network error rejects with OfflineError and is appended to the queue.
C13_QueryQueuedOffline ==
  [][\A p \in Procs :
       ( /\ call[p] = "request"
         /\ api[p] = "query"
         /\ pc[p] = "fetch"
         /\ Settles(p)
         /\ offlineMode
         /\ isNetworkError(last'.caught) )
       => /\ last'.error.name = "OfflineError"
          /\ IsAppend(offlineQueue, offlineQueue')]_vars

\* C14: when ensureCollection is awaited a second time with the same name and
\* no schema, the collection the first call returned is still on the server
\* and the transport delivers the server's answers, the second call returns
\* the same descriptor: its create request is answered with 409, its one
\* follow-up is the listing, and the server's collections are unchanged,
\* no two of them bearing the same name.
C14_EnsureTwiceSameId ==
  /\ [](\A i, j \in DOMAIN server :
          i # j => Lower(server[i].name) # Lower(server[j].name))
  /\ [][( /\ fc.kind = "ensure"
          /\ FSettles
          /\ fc.held # <<>>
          /\ \E i \in DOMAIN server' : server'[i] = fc.held[1]
          /\ \A i \in DOMAIN flast'.reqs :
               \/ flast'.reqs[i].status = 409
               \/ Succeeded(flast'.reqs[i]) /\ flast'.reqs[i].status # 204 )
        => /\ flast'.state = "resolved"
           /\ flast'.value = fc.held
           /\ Len(flast'.reqs) = 2
           /\ flast'.reqs[1].api = "createCollection"
           /\ flast'.reqs[1].status = 409
           /\ flast'.reqs[2].api = "collections"
           /\ flast'.reqs[2].status = 200
           /\ server' = server
           /\ nextId' = nextId]_vars

C14_Witness ==
  /\ flast.kind = "ensure"
  /\ flast.name = "Users"
  /\ flast.state = "resolved"
  /\ flast.held # <<>>
  /\ flast.value = flast.held
  /\ Len(flast.reqs) = 2
  /\ Len(server) = 1

\* C15: an ensureCollection given a schema whose create request is answered
\* with 409 sends a PUT update for that collection as its second and last
\* request, never the listing; when the update succeeds the call returns the
\* descriptor the update answered with, otherwise it rejects with the error
\* of the update.
C15_SchemaConflictUpdates ==
  /\ []((fc.kind = "ensure" /\ fc.schema)
          => \A i \in DOMAIN fc.reqs : fc.reqs[i].api # "collections")
  /\ [][/\ ( /\ fc.kind = "ensure"
             /\ fc.schema
             /\ fc.pc = "createCollection"
             /\ ReqsAfter[1].status = 409 )
           => /\ fc'.kind = "ensure"
              /\ fc'.pc = "updateCollection"
              /\ Method(fc'.pc) = "PUT"
              /\ Len(fc'.reqs) = 2
              /\ fc'.reqs[2] = Sent("updateCollection", fc.name)
        /\ ( /\ fc.kind = "ensure"
             /\ fc.schema
             /\ Len(fc.reqs) = 2
             /\ fc' # fc )
           => /\ FSettles
              /\ Len(flast'.reqs) = 2
              /\ flast'.reqs[2].api = "updateCollection"
              /\ IF Succeeded(flast'.reqs[2]) /\ flast'.reqs[2].status = 200
                   THEN /\ flast'.state = "resolved"
                        /\ ServerHas(fc.name)
                        /\ flast'.value = <<ServerFind(fc.name)>>
                   ELSE /\ flast'.state = "rejected"
                        /\ flast'.error.status # 409
                        /\ flast'.reqs[2].caught # NoErr
                             => flast'.error = flast'.reqs[2].caught]_vars

C15_Witness ==
  /\ flast.kind = "ensure"
  /\ flast.schema
  /\ flast.state = "resolved"
  /\ Len(flast.reqs) = 2
  /\ flast.reqs[1].status = 409
  /\ flast.reqs[2].api = "updateCollection"
  /\ flast.value = <<server[1]>>

\* C16: an ensureCollection given no schema whose create request is answered
\* with 409 sends the listing request; when the listing arrives the call
\* returns a listed collection whose name equals the requested one up to
\* case if there is one, and otherwise rejects with TinyDBError 404
\* collection_not_found, not with the 409.
C16_ConflictLookup ==
  [][/\ ( /\ fc.kind = "ensure"
          /\ ~fc.schema
          /\ fc.pc = "createCollection"
          /\ ReqsAfter[1].status = 409 )
        => /\ fc'.kind = "ensure"
           /\ fc'.pc = "collections"
           /\ fc'.reqs[2] = Sent("collections", fc.name)
     /\ ( /\ fc.kind = "ensure"
          /\ fc.pc = "collections"
          /\ FSettles
          /\ Succeeded(flast'.reqs[2])
          /\ flast'.reqs[2].status = 200 )
        => IF \E i \in DOMAIN server : Lower(server[i].name) = Lower(fc.name)
             THEN /\ flast'.state = "resolved"
                  /\ \E i \in DOMAIN server : flast'.value = <<server[i]>>
                  /\ Lower(flast'.value[1].name) = Lower(fc.name)
             ELSE /\ flast'.state = "rejected"
                  /\ flast'.error.name = "TinyDBError"
                  /\ flast'.error.status = 404
                  /\ flast'.error.code = "collection_not_found"]_vars

C16_Witness ==
  /\ flast.kind = "ensure"
  /\ flast.state = "rejected"
  /\ flast.error.code = "collection_not_found"
  /\ flast.error.status = 404
  /\ flast.reqs[1].status = 409
  /\ flast.reqs[2].status = 200
  /\ envOps = 1

\* C17: when the create request of ensureCollection fails with anything but
\* a 409 (a failure status, a body that is not JSON, no response), the call
\* rejects with that same error after that one transport call, and the
\* offline queue is unchanged whatever offlineMode is.
C17_CreateFailurePropagates ==
  [][( /\ fc.kind = "ensure"
       /\ fc.pc = "createCollection"
       /\ ~ReqsAfter[1].pending
       /\ ReqsAfter[1].caught # NoErr
       /\ ReqsAfter[1].status # 409 )
     => /\ FSettles
        /\ flast'.state = "rejected"
        /\ flast'.error = flast'.reqs[1].caught
        /\ flast'.error.name # "OfflineError"
        /\ Len(flast'.reqs) = 1
        /\ offlineQueue' = offlineQueue
        /\ enqCount' = enqCount
        /\ server' = server]_vars

C17_Witness ==
  /\ offlineMode
  /\ flast.kind = "ensure"
  /\ flast.state = "rejected"
  /\ flast.error = PlainError("TypeError", "Failed to fetch")
  /\ Len(flast.reqs) = 1
  /\ flast.reqs[1].api = "createCollection"
  /\ offlineQueue = <<>>

\* C18: delete(ids) and purge(ids) send the request for the k-th identifier
\* of the list only when the requests for the k-1 before it have succeeded,
\* one at a time and in list order; when the k-th request fails the call
\* rejects at once, so nothing is sent for the later identifiers, with the
\* error of that request or, when that request was queued, the OfflineError
\* carrying it; the call resolves when every identifier's request succeeded.
C18_BatchSequential ==
  /\ [](fc.kind \in {"delete", "purge"}
          => /\ Len(fc.reqs) = fc.k
             /\ fc.k <= Len(fc.list)
             /\ \A i \in 1..fc.k :
                  /\ fc.reqs[i].api = fc.kind
                  /\ fc.reqs[i].arg = fc.list[i]
                  /\ fc.reqs[i].pending = (i = fc.k)
                  /\ i < fc.k => Succeeded(fc.reqs[i]))
  /\ [][( fc.kind \in {"delete", "purge"} /\ FSettles )
        => LET rq == flast'.reqs
               n == Len(rq)
           IN  /\ n = fc.k
               /\ \A i \in 1..n : rq[i].arg = fc.list[i] /\ ~rq[i].pending
               /\ \A i \in 1..(n - 1) : Succeeded(rq[i])
               /\ IF Succeeded(rq[n])
                    THEN /\ flast'.state = "resolved"
                         /\ n = Len(fc.list)
                         /\ offlineQueue' = offlineQueue
                    ELSE /\ flast'.state = "rejected"
                         /\ \/ /\ flast'.error = rq[n].caught
                               /\ offlineQueue' = offlineQueue
                            \/ /\ flast'.error.name = "OfflineError"
                               /\ IsAppend(offlineQueue, offlineQueue')
                               /\ flast'.error.operation
                                    = offlineQueue'[Len(offlineQueue')]
                               /\ flast'.error.operation.method = "DELETE"
                               /\ isNetworkError(rq[n].caught)]_vars

C18_Witness ==
  /\ ~offlineMode
  /\ flast.kind = "purge"
  /\ flast.state = "rejected"
  /\ flast.error.name = "TinyDBError"
  /\ Len(flast.list) = 3
  /\ Len(flast.reqs) = 2
  /\ Succeeded(flast.reqs[1])
  /\ flast.reqs[2].arg = flast.list[2]

\* C19: create([]) resolves with an empty list in the step in which it is
\* called: no transport call is made and the offline queue and the server
\* are as before, whatever the queue holds.
C19_CreateEmptyList ==
  [][( /\ fcalls' = fcalls + 1
       /\ \/ fc'.kind = "create" /\ Len(fc'.list) = 0
          \/ /\ fc'.kind = "none"
             /\ flast'.kind = "create"
             /\ Len(flast'.list) = 0 )
     => /\ fc'.kind = "none"
        /\ flast'.state = "resolved"
        /\ Len(flast'.value) = 0
        /\ Len(flast'.reqs) = 0
        /\ offlineQueue' = offlineQueue
        /\ enqCount' = enqCount
        /\ server' = server]_vars

C19_Witness ==
  /\ flast.kind = "create"
  /\ Len(flast.list) = 0
  /\ flast.state = "resolved"
  /\ Len(flast.reqs) = 0
  /\ Len(offlineQueue) = 1
  /\ fcalls = 2

\* C20: the data of a decoded record is a JSON object, never null: the empty
\* object when the wire data is absent, null or empty, and an object carrying
\* the wire text under _raw when that text is not JSON or is JSON for
\* something other than an object.
C20_DataAlwaysObject ==
  decoded # Nothing /\ decoded.kind = "record"
  => /\ decoded.data.type = "object"
     /\ Falsy(wire.data)
          => DOMAIN decoded.data.props \subseteq {"_doc_id"}
     /\ ( /\ ~Falsy(wire.data)
          /\ JSONParse(wire.data.text).type # "object" )
          => /\ "_raw" \in DOMAIN decoded.data.props
             /\ decoded.data.props["_raw"] = wire.data

\* C21: the _doc_id of a decoded record's data is the _doc_id the wire data
\* already carried when that is a non-empty string, and the record id
\* otherwise; so it is a non-empty string whenever the record id is one.
C21_DocIdFromDataOrRecord ==
  decoded # Nothing /\ decoded.kind = "record"
  => LET parsed == JSONParse(wire.data.text)
         carried == IF ~Falsy(wire.data) /\ TypeOf(parsed) = "object"
                        /\ "_doc_id" \in DOMAIN parsed.props
                      THEN parsed.props["_doc_id"]
                      ELSE Prim("undefined", "")
         docId == decoded.data.props["_doc_id"]
     IN  /\ (carried.type = "string" /\ carried.text # "") => docId = carried
         /\ ~(carried.type = "string" /\ carried.text # "") => docId = wire.id
         /\ (wire.id.type = "string" /\ wire.id.text # "")
              => (docId.type = "string" /\ docId.text # "")

C21_Witness ==
  /\ decoded # Nothing
  /\ decoded.kind = "record"
  /\ wire.id = Prim("string", "r1")
  /\ wire.data = Prim("string", "{\"_doc_id\":\"d7\"}")
  /\ decoded.data.props["_doc_id"] = Prim("string", "d7")

\* C22: the version of a decoded record is 1 when the wire version is missing
\* or is not a valid number, and the wire version unchanged when it is one.
C22_VersionDefaultsToOne ==
  decoded # Nothing /\ decoded.kind = "record"
  => IF wire.version.type = "number" /\ wire.version.text # "NaN"
       THEN decoded.version = wire.version
       ELSE decoded.version = Prim("number", "1")

C22_Witness ==
  /\ decoded # Nothing
  /\ decoded.kind = "record"
  /\ wire.version = Prim("string", "2")
  /\ decoded.version = Prim("number", "1")

\* C23: decoding a collection descriptor never fails on its schema field: a
\* schema text that parses is replaced by what it parses to, a text that
\* does not parse is kept verbatim under _raw, an absent or empty schema text
\* leaves the schema undefined, and every other field of the descriptor is
\* passed through unchanged.
C23_SchemaNeverFails ==
  decoded # Nothing /\ decoded.kind = "collection"
  => LET text == wire.schema_json
         parsed == JSONParse(text.text)
     IN  /\ "schema" \in DOMAIN decoded
         /\ (text.type = "string" /\ text.text # ""
               /\ parsed.type # "undefined")
              => decoded.schema = parsed
         /\ (text.type = "string" /\ text.text # ""
               /\ parsed.type = "undefined")
              => /\ decoded.schema.type = "object"
                 /\ DOMAIN decoded.schema.props = {"_raw"}
                 /\ decoded.schema.props["_raw"] = text
         /\ (text.type \in {"undefined", "null"} \/ text.text = "")
              => decoded.schema = Prim("undefined", "")
         /\ \A k \in DOMAIN wire : decoded[k] = wire[k]

C23_Witness ==
  /\ decoded # Nothing
  /\ decoded.kind = "collection"
  /\ wire.schema_json = Prim("string", "{\"a\":")
  /\ decoded.schema = Obj("_raw", Prim("string", "{\"a\":"))
  /\ decoded.primary_key_field = Prim("string", "sku")

\* C24: a request that received a non-success response rejects with a
\* TinyDBError carrying the response status and the message of the body
\* (message, then error_description, then error), or the status text when the
\* body is absent or unparseable; the request was handed to the transport
\* once.
C24_HttpErrorSurfaced ==
  [][\A p \in Procs :
       (call[p] = "request" /\ pc[p] = "parseError" /\ Settles(p))
       => LET body == resp[p].body
              fromBody ==
                IF body.kind # "json" THEN Undefined
                ELSE IF Truthy(body.message) THEN body.message
                ELSE IF Truthy(body.error_description)
                  THEN body.error_description
                ELSE body.error
          IN  /\ last'.state = "rejected"
              /\ last'.error.name = "TinyDBError"
              /\ last'.error.status = resp[p].status
              /\ last'.error.message =
                   (IF Truthy(fromBody) THEN fromBody
                    ELSE resp[p].statusText)
              /\ nfetch[p] = 1]_vars

\* C25: every request handed to the transport, a replay included, carries
\* the API-key header with the configured key, and carries the app-scope
\* header, with the configured app id, exactly when an app id is configured;
\* so does the request every method of the client and of a collection builds.
C25_HeadersOnEveryRequest ==
  /\ \A p \in Procs :
       pc[p] = "fetch"
       => LET headers == Handed(p).init.headers
          IN  /\ "X-API-Key" \in DOMAIN headers
              /\ headers["X-API-Key"] = ApiKey
              /\ "X-App-ID" \in DOMAIN headers <=> Truthy(appId)
              /\ Truthy(appId) => headers["X-App-ID"] = appId
  /\ \A a \in FacadeCalls \cup CollectionCalls :
       LET headers == Request(appId, a).init.headers
       IN  /\ "X-API-Key" \in DOMAIN headers
           /\ headers["X-API-Key"] = ApiKey
           /\ "X-App-ID" \in DOMAIN headers <=> Truthy(appId)
           /\ Truthy(appId) => headers["X-App-ID"] = appId

C25_Witness ==
  /\ appId = "app-1"
  /\ \E p \in Procs :
       /\ FlushRunning(p)
       /\ pc[p] = "fetch"
       /\ nfetch[p] = 2
       /\ Handed(p).init.headers["X-App-ID"] = "app-1"
  /\ \E p \in Procs : call[p] = "request" /\ pc[p] = "fetch"

\* C26: the request a flush sends for a queued operation is identical in URL,
\* method, headers and body to the request of the call that was queued, on
\* every replay attempt and whatever requests were issued in between.
C26_ReplayIdenticalToOriginal ==
  \A p \in Procs :
    (FlushRunning(p) /\ pc[p] = "fetch")
    => /\ cur[p].id \in 1..Len(attempts)
       /\ Handed(p).url = attempts[cur[p].id].url
       /\ Handed(p).init.method = attempts[cur[p].id].init.method
       /\ Handed(p).init.headers = attempts[cur[p].id].init.headers
       /\ Handed(p).init.body = attempts[cur[p].id].init.body

C26_Witness ==
  /\ Len(attempts) = 2
  /\ attempts[1].init.body = "create"
  /\ attempts[2].init.method = "DELETE"
  /\ Len(replayLog) = 2
  /\ replayLog[1] = 1
  /\ replayLog[2] = 1
  /\ last.call = "request"
  /\ last.state = "rejected"
  /\ \E p \in Procs :
       /\ FlushRunning(p)
       /\ pc[p] = "fetch"
       /\ cur[p].id = 1
       /\ Handed(p).init.body = "create"

\* C27: a new client's queue is empty, and a step changes the queue only by
\* appending one operation at the tail, in the catch block of a request that
\* then rejects with OfflineError, or by removing the head, in a flush whose
\* replay succeeded; a request that resolves, a read however it ends, and
\* the requests that resolve a collection leave the queue as it was.
C27_QueueChangesOnlyByEnqueueAndFlush ==
  /\ offlineQueue = <<>>
  /\ \A c \in CollectionCalls, mode \in BOOLEAN,
        err \in FetchErrors \cup {ParseFailure}
                   \cup {parseError(r) : r \in Responses} :
       ~ShouldQueue(mode, c, err)
  /\ [][/\ offlineQueue' # offlineQueue
            => \/ /\ IsAppend(offlineQueue, offlineQueue')
                  /\ \E p \in Procs :
                       /\ call[p] = "request"
                       /\ Settles(p)
                       /\ last'.state = "rejected"
                       /\ last'.error.name = "OfflineError"
               \/ /\ Len(offlineQueue) > 0
                  /\ offlineQueue' = Tail(offlineQueue)
                  /\ \E p \in Procs :
                       /\ FlushRunning(p)
                       /\ pc[p] = "parser"
                       /\ Ok(resp[p])
                       /\ pc'[p] # pc[p]
        /\ \A p \in Procs :
             ( /\ call[p] = "request"
               /\ Settles(p)
               /\ last'.state = "resolved" \/ Method(api[p]) = "GET" )
             => offlineQueue' = offlineQueue]_vars

C27_Witness ==
  /\ enqCount = 2
  /\ Len(replayLog) = 2
  /\ Len(offlineQueue) = 1
  /\ offlineQueue[1].id = 2
  /\ last.call = "request"
  /\ last.state = "resolved"

\* C28: the descriptor a collection facade caches changes only in the step
\* in which its refresh() resolves or a builder obtained from its schema()
\* or primary_key() resolves, and then to the descriptor that call returned;
\* document operations never change it, and a refresh or resolution that
\* fails leaves it as it was.
C28_CacheChangesOnlyOnRefreshOrResolve ==
  [][/\ metadata' # metadata
        => /\ FSettles
           /\ fc.kind = "refresh" \/ (fc.kind = "ensure" /\ fc.onResolved)
           /\ flast'.state = "resolved"
           /\ metadata' = flast'.value
     /\ fc.kind \in {"delete", "purge", "create"} => metadata' = metadata
     /\ (FSettles /\ flast'.state = "rejected") => metadata' = metadata
     /\ ( /\ FSettles
          /\ flast'.state = "resolved"
          /\ fc.kind = "refresh" \/ (fc.kind = "ensure" /\ fc.onResolved) )
        => metadata' = flast'.value]_vars

C28_Witness ==
  /\ metadata = <<[id |-> 2, name |-> "Users"]>>
  /\ flast.kind = "refresh"
  /\ flast.state = "resolved"

\* C29: with at most one flush running at a time, an operation whose replay
\* received a success status is never sent again: when the flush that
\* settled most recently got a success status for the operation it replayed
\* last (it resolved, or rejected because the parser threw on the success
\* response), an operation sent from then on is another one.
C29_AcknowledgedNeverResent ==
  [][( /\ Len(replayLog') = Len(replayLog) + 1
       /\ last.call = "flush"
       /\ last.op # NoOp
       /\ last.state = "resolved" \/ last.caught = ParseFailure )
     => replayLog'[Len(replayLog')] # last.op.id]_vars

\* C30: two flushOfflineQueue calls running at the same time never both
\* send the same queued operation.
C30_ConcurrentFlushesSendDistinct ==
  \A p, q \in Procs :
    ( /\ p # q
      /\ FlushRunning(p)
      /\ FlushRunning(q) )
    => cur[p].id # cur[q].id

\* C31: with offlineMode enabled, when the request for the k-th identifier
\* of delete(ids) or purge(ids) fails with a network error, that request and
\* no other is appended to the queue and the call rejects with the
\* OfflineError carrying it; the identifiers after the k-th are neither sent
\* nor queued, and the requests before the k-th left the queue as it was.
C31_BatchQueuesFailedIdOnly ==
  [][/\ ( /\ fc.kind \in {"delete", "purge"}
           /\ FSettles
           /\ offlineMode
           /\ isNetworkError(flast'.reqs[Len(flast'.reqs)].caught) )
        => LET rq == flast'.reqs
               k == Len(rq)
           IN  /\ k = fc.k
               /\ k <= Len(fc.list)
               /\ \A i \in 1..k : rq[i].arg = fc.list[i]
               /\ \A i \in 1..(k - 1) : Succeeded(rq[i])
               /\ flast'.state = "rejected"
               /\ flast'.error.name = "OfflineError"
               /\ IsAppend(offlineQueue, offlineQueue')
               /\ enqCount' = enqCount + 1
               /\ flast'.error.operation = offlineQueue'[Len(offlineQueue')]
               /\ flast'.error.operation.method = "DELETE"
               /\ flast'.error.operation.url = Path(fc.kind)
     /\ ( fc.kind \in {"delete", "purge"} /\ ~FSettles )
        => offlineQueue' = offlineQueue]_vars

C31_Witness ==
  /\ offlineMode
  /\ flast.kind = "delete"
  /\ flast.state = "rejected"
  /\ flast.error.name = "OfflineError"
  /\ Len(flast.list) = 3
  /\ Len(flast.reqs) = 2
  /\ flast.reqs[2].caught.name = "TypeError"
  /\ Len(offlineQueue) = 1
  /\ offlineQueue[1] = flast.error.operation

\* C32: with offlineMode disabled the offline queue is empty in every
\* reachable state and no call rejects with OfflineError, whatever calls
\* are issued and however the transport fails; the catch block queues no
\* request of any method of the client or of a collection.
C32_NoQueueWhenOfflineModeOff ==
  ~offlineMode
  => /\ offlineQueue = <<>>
     /\ enqCount = 0
     /\ replayLog = <<>>
     /\ last.error.name # "OfflineError"
     /\ \A a \in FacadeCalls \cup CollectionCalls,
           err \in FetchErrors \cup {ParseFailure}
                      \cup {parseError(r) : r \in Responses} :
          ~ShouldQueue(offlineMode, a, err)

C32_Witness ==
  /\ ~offlineMode
  /\ last.call = "request"
  /\ last.state = "rejected"
  /\ last.error.name = "TypeError"
  /\ \E p \in Procs :
       /\ call[p] = "request"
       /\ api[p] = "create"
       /\ pc[p] = "parseError"
       /\ resp[p].status = 511
  /\ ncalls = MaxCalls

\* C33: an ensureCollection call makes at most two transport calls: the
\* create request first, and a second request only after the create was
\* answered with 409, which is the PUT update when a schema was supplied and
\* the GET of the listing otherwise; the call settles when that second
\* request is answered, whatever the answer, a 409 included.
C33_AtMostTwoRequests ==
  /\ [](fc.kind = "ensure"
          => /\ Len(fc.reqs) \in {1, 2}
             /\ fc.reqs[1].api = "createCollection"
             /\ Len(fc.reqs) = 2
                  => /\ fc.reqs[1].status = 409
                     /\ ~fc.reqs[1].pending
                     /\ fc.reqs[2].pending
                     /\ fc.reqs[2].api
                          = (IF fc.schema THEN "updateCollection"
                             ELSE "collections")
                     /\ Method(fc.reqs[2].api)
                          = (IF fc.schema THEN "PUT" ELSE "GET"))
  /\ [][fc.kind = "ensure"
          => /\ (fc' # fc /\ Len(fc.reqs) = 2) => FSettles
             /\ (fc' # fc /\ ReqsAfter[1].status # 409) => FSettles
             /\ FSettles => Len(flast'.reqs) = Len(fc.reqs)]_vars

C33_Witness ==
  /\ flast.kind = "ensure"
  /\ flast.state = "rejected"
  /\ Len(flast.reqs) = 2
  /\ flast.reqs[1].status = 409
  /\ flast.reqs[2].status = 409
  /\ flast.reqs[2].api = "updateCollection"
  /\ flast.error.status = 409

\* C34: after a 409 the primary key configuration is in no follow-up
\* request: the update's body has the schema and nothing else, the listing
\* has no body; and a call without a schema that resolves by the listing
\* returns the descriptor the server lists for the name, unchanged, a primary
\* key configuration supplied or not.
C34_NoPrimaryKeyInFollowUp ==
  /\ [](fc.kind = "ensure" /\ Len(fc.reqs) = 2
          => /\ "primary_key" \notin DOMAIN RequestBody(fc, 2)
             /\ fc.schema
                  => /\ DOMAIN RequestBody(fc, 2) = {"schema"}
                     /\ RequestBody(fc, 2).schema = SchemaStr
             /\ ~fc.schema => RequestBody(fc, 2) = NoRequestBody)
  /\ [][(/\ fc.kind = "ensure"
          /\ Len(fc.reqs) = 2
          /\ ~fc.schema
          /\ FSettles
          /\ flast'.state = "resolved")
          => /\ ServerHas(fc.name)
             /\ flast'.value = <<ServerFind(fc.name)>>
             /\ server' = server]_vars

C34_Witness ==
  /\ flast.kind = "ensure"
  /\ flast.state = "resolved"
  /\ ~flast.schema
  /\ flast.primaryKey = PrimaryKey("sku", "string", "true")
  /\ Len(flast.reqs) = 2
  /\ flast.reqs[1].status = 409
  /\ flast.reqs[2].api = "collections"
  /\ flast.value = <<[id |-> 1, name |-> "users"]>>

\* C36 as stated: the body of the create request has a primary_key block only
\* when the caller set (to anything but undefined) at least one of field,
\* type and auto, and the block has exactly the fields the caller set, with
\* their values.
C36_BlockHasExactlySetFields ==
  fc.kind = "ensure"
    => LET pk == fc.primaryKey
           block == RequestBody(fc, 1).primary_key
           set == { k \in {"field", "type", "auto"} :
                      pk.supplied /\ pk[k] # Undefined }
       IN  /\ set = {} => block = <<>>
           /\ block # <<>>
                => /\ DOMAIN block[1] = set
                   /\ \A k \in set : block[1][k] = pk[k]

\* C36, amended: the block is sent exactly when the caller set field or type
\* to a non-empty string, or auto to true or false; it then has exactly
\* those fields, with the caller's values (an empty field or type is left
\* out like an unset one; auto: false is kept).
C36_BlockHasNonEmptySetFields ==
  fc.kind = "ensure"
    => LET pk == fc.primaryKey
           block == RequestBody(fc, 1).primary_key
           set == { k \in {"field", "type", "auto"} :
                      /\ pk.supplied
                      /\ pk[k] # Undefined
                      /\ k = "auto" \/ pk[k] # "" }
       IN  /\ fc.reqs[1].api = "createCollection"
           /\ Len(block) = (IF set = {} THEN 0 ELSE 1)
           /\ block # <<>>
                => /\ DOMAIN block[1] = set
                   /\ \A k \in set : block[1][k] = pk[k]

C36_Witness ==
  /\ fc.kind = "ensure"
  /\ fc.pkConfig = PrimaryKey("", Undefined, "false")
  /\ fc.reqs[1].api = "createCollection"
  /\ DOMAIN RequestBody(fc, 1).primary_key[1] = {"auto"}
  /\ RequestBody(fc, 1).primary_key[1]["auto"] = "false"

\* C37: a builder awaited and a builder resolved by sync() do the same for
\* every configuration: the ensureCollection input is the name, the schema
\* and the primary key of the builder, so the create request is the same;
\* when the call resolves, the callback (if the builder has one) receives
\* the descriptor the call returned, which is the one the returned facade is
\* bound to, under the builder's name; when it rejects, no callback runs.
C37_AwaitEquivalentToSync ==
  [][/\ (fc.kind = "none" /\ fc'.kind = "ensure")
          => /\ fc'.via \in Vias
             /\ fc'.name = FacadeName
             /\ fc'.schema = fc'.schemaDef
             /\ fc'.primaryKey = fc'.pkConfig
             /\ fc'.reqs = <<Sent("createCollection", FacadeName)>>
             /\ RequestBody(fc', 1)
                  = CreateBody([name |-> FacadeName, schema |-> fc'.schemaDef,
                                primaryKey |-> fc'.pkConfig])
     /\ (fc.kind = "ensure" /\ FSettles)
          => /\ flast'.name = fc.name
             /\ flast'.via = fc.via
             /\ metadata' = (IF fc.onResolved /\ flast'.state = "resolved"
                               THEN flast'.value ELSE metadata)
             /\ flast'.state = "resolved" => Len(flast'.value) = 1]_vars

C37_Witness ==
  /\ flast.kind = "ensure"
  /\ flast.via = "await"
  /\ flast.state = "resolved"
  /\ flast.schema
  /\ flast.primaryKey = PrimaryKey("sku", "string", "false")
  /\ Len(flast.reqs) = 1
  /\ flast.value = <<[id |-> 2, name |-> "users"]>>
  /\ metadata = flast.value

\* C35: a flush during which nothing is enqueued, and whose transport calls
\* all return, makes at most as many replay requests as the queue had
\* operations when it was called, and ends: every step of it either removes
\* the head of the queue (and then sends the next replay or, the queue
\* being empty, resolves) or rejects the flush and leaves the queue alone.
C35_FlushTerminatesWithinQueueLength ==
  /\ [](\A p \in Procs : FlushRunning(p) => nfetch[p] \in 1..atStart[p])
  /\ [][\A p \in Procs :
          (FlushRunning(p) /\ (pc'[p] # pc[p] \/ nfetch'[p] # nfetch[p]))
            => \/ /\ Free(p)'
                  /\ last'.call = "flush"
                  /\ last'.state = "rejected"
                  /\ offlineQueue' = offlineQueue
               \/ /\ Free(p)'
                  /\ last'.call = "flush"
                  /\ last'.state = "resolved"
                  /\ offlineQueue # <<>>
                  /\ offlineQueue' = Tail(offlineQueue)
                  /\ offlineQueue' = <<>>
               \/ /\ FlushRunning(p)'
                  /\ offlineQueue # <<>>
                  /\ offlineQueue' = Tail(offlineQueue)
                  /\ nfetch'[p] = nfetch[p] + 1
               \/ /\ FlushRunning(p)'
                  /\ offlineQueue' = offlineQueue
                  /\ nfetch'[p] = nfetch[p]]_vars
  /\ \A p \in Procs : FlushRunning(p) ~> ~FlushRunning(p)

C35_Witness ==
  /\ last.call = "flush"
  /\ last.state = "resolved"
  /\ offlineQueue = <<>>
  /\ \E p \in Procs : atStart[p] = 2 /\ Free(p)
  /\ \A p \in Procs : atStart[p] \in {0, 2}
  /\ replayLog = <<1, 2>>

====
